---- MODULE Spec2Model ----
(***************************************************************************)
(* Model of the device control core of heos-tui.                           *)
(*                                                                         *)
(*   Spec         the control loop of main.rs with the Event Reconciler of *)
(*                app.rs: one action per branch of the select! loop, the   *)
(*                events and responses drawn from small sets.              *)
(*   SessionSpec  one Connection Session (heos/client.rs, heos/avr.rs):    *)
(*                the read loop, the write loop, the bounded command queue *)
(*                and event channel, and the callers of submit.            *)
(*                                                                         *)
(* Strings whose content is parsed by the code (the message string of an   *)
(* envelope) are sequences of one-character strings; Option<T> is a        *)
(* sequence of length 0 (None) or 1 (Some).                                *)
(***************************************************************************)
EXTENDS Integers, Sequences, FiniteSets, TLC

VARIABLES
    app,        \* the App struct (app.rs:40-82)
    sent,       \* commands the last control-loop step submitted on the HEOS handle
    cmd_open,   \* TRUE while the receiver end of the HEOS command channel exists
    appH,       \* App::new() folded over the player-side steps alone
    appA,       \* App::new() folded over the receiver-side steps alone
    heos_task,  \* the HEOS connection task and its handle (main.rs:70-102, 182)
    avr_task,   \* the AVR connection task and its handle (main.rs:107-137, 189)
    steps,      \* number of messages the control loop has taken
    loop        \* the control loop: its position and the message it took

\* One Connection Session (heos/client.rs:139-211, heos/avr.rs:348-410)
VARIABLES
    kind,        \* "heos" or "avr": which client the session belongs to
    reader,      \* the reader task: its position, the lines read, the event in hand
    evq,         \* the event channel of the session (main.rs:40-41)
    applied,     \* ids of the socket lines whose event the control loop has applied
    disc,        \* TRUE once the reader has emitted Disconnected after a zero-length read
    write_half,  \* TRUE while the shared Option<OwnedWriteHalf> is Some
    writer,      \* the writer task: its position, the command in hand, why it ended,
                 \* and what it has put on the socket
    cmdq,        \* the command channel (client.rs:152, avr.rs:359)
    waiters,     \* send calls suspended on the full command channel, oldest first
    task,        \* the connection task of main.rs that called connect
    ctl,         \* the control loop: whether it holds the handle, whether it is in send
    results,     \* the send calls that returned, in the order they returned
    enq          \* ids of the commands placed on the command channel, in order

loopvars == <<app, sent, cmd_open, appH, appA, heos_task, avr_task, steps, loop>>
sessvars ==
    <<kind, reader, evq, applied, disc, write_half, writer, cmdq, waiters, task, ctl,
      results, enq>>
\* The connection tasks of main.rs (conn) and the last decoding or encoding
\* computed for a drawn input (calc)
VARIABLES conn, calc, ssdp

auxvars == <<conn, calc, ssdp>>
vars == <<loopvars, sessvars, auxvars>>

-----------------------------------------------------------------------------
(* Bounds of the model *)

MaxSteps == 3
MaxPid == 2
\* Socket lines a session reads, commands submitted to it, and the capacities
\* of its command channel and of its event channel (100 in the program).
\* Sessions a connection task may make before the model stops it
MaxSessions == 2
\* Largest volume level a drawn message carries.
MaxLevel == 100
\* Longest suffix drawn after the receiver's volume prefix.
MaxSuffix == 4
\* Most parameters a drawn command carries.
MaxParams == 2
\* Longest string argument drawn for a command constructor.
MaxArg == 2
\* Clock ticks of a discovery timeout, and source addresses that reply.
MaxTicks == 3
MaxIps == 2
\* The largest value of a u8 level argument.
U8Max == 255
MaxLines == 2
MaxCmds == 3
CmdCap == 1
EvCap == 2

-----------------------------------------------------------------------------
(* Option<T> *)

None == <<>>
Some(x) == <<x>>
IsSome(o) == Len(o) = 1
Unwrap(o) == o[1]

-----------------------------------------------------------------------------
(* Strings as sequences of characters *)

Digits == <<"0", "1", "2", "3", "4", "5", "6", "7", "8", "9">>

IsDigit(c) == \E i \in 1..10 : Digits[i] = c
DigitVal(c) == (CHOOSE i \in 1..10 : Digits[i] = c) - 1

RECURSIVE DecValue(_)
DecValue(s) ==
    IF s = <<>> THEN 0
    ELSE 10 * DecValue(SubSeq(s, 1, Len(s) - 1)) + DigitVal(s[Len(s)])

AllDigits(s) == s # <<>> /\ \A i \in 1..Len(s) : IsDigit(s[i])

\* A parse that accepts at most two digits.
ParseU8_two_digits(s) ==
    IF AllDigits(s) /\ Len(s) <= 2 THEN Some(DecValue(s)) ELSE None

\* str::parse::<u8>(): an optional '+', then decimal digits, value at most 255.
ParseU8(s) ==
    LET body == IF s # <<>> /\ s[1] = "+" THEN Tail(s) ELSE s
    IN  IF AllDigits(body) /\ DecValue(body) <= 255 THEN Some(DecValue(body)) ELSE None

\* str::parse::<i64>(): an optional sign, then decimal digits (the model's
\* numerals are far below the 64-bit limit).
ParseI64(s) ==
    LET neg  == s # <<>> /\ s[1] = "-"
        body == IF s # <<>> /\ s[1] \in {"+", "-"} THEN Tail(s) ELSE s
    IN  IF AllDigits(body)
        THEN Some(IF neg THEN 0 - DecValue(body) ELSE DecValue(body))
        ELSE None

\* Index of the first occurrence of character c in s, 0 when there is none.
RECURSIVE FindChar(_, _, _)
FindChar(s, c, i) ==
    IF i > Len(s) THEN 0
    ELSE IF s[i] = c THEN i
    ELSE FindChar(s, c, i + 1)

\* str::split(c): the pieces between the occurrences of c (at least one piece).
RECURSIVE Split(_, _)
Split(s, c) ==
    LET i == FindChar(s, c, 1)
    IN  IF i = 0 THEN <<s>>
        ELSE <<SubSeq(s, 1, i - 1)>> \o Split(SubSeq(s, i + 1, Len(s)), c)

\* str::split_once(c): Some(<<before, after>>) at the first c, None without one.
SplitOnce(s, c) ==
    LET i == FindChar(s, c, 1)
    IN  IF i = 0 THEN None
        ELSE Some(<<SubSeq(s, 1, i - 1), SubSeq(s, i + 1, Len(s))>>)

\* HashMap<String, String> as a sequence of <<key, value>> with distinct keys;
\* insert replaces the value of a key already present.
MapInsert(m, k, v) ==
    IF \E i \in 1..Len(m) : m[i][1] = k
    THEN [i \in 1..Len(m) |-> IF m[i][1] = k THEN <<k, v>> ELSE m[i]]
    ELSE Append(m, <<k, v>>)

MapGet(m, k) ==
    IF \E i \in 1..Len(m) : m[i][1] = k
    THEN Some(m[CHOOSE i \in 1..Len(m) : m[i][1] = k][2])
    ELSE None

RECURSIVE InsertPairs(_, _)
InsertPairs(map, pairs) ==
    IF pairs = <<>> THEN map
    ELSE LET kv == SplitOnce(Head(pairs), "=")
         IN  InsertPairs(IF IsSome(kv) THEN MapInsert(map, Unwrap(kv)[1], Unwrap(kv)[2])
                         ELSE map,
                         Tail(pairs))

parse_message_string(message) ==
    IF message = <<>> THEN <<>>
    ELSE InsertPairs(<<>>, Split(message, "&"))

-----------------------------------------------------------------------------
(* The string literals of the source, as character sequences *)

Str ==
    [
      \* "heos://"
      scheme |-> <<"h", "e", "o", "s", ":", "/", "/">>,
      \* "\r\n"
      crlf |-> <<"\r", "\n">>,
      \* parameter keys and command names of the browse constructors
      sid |-> <<"s", "i", "d">>,
      cid |-> <<"c", "i", "d">>,
      mid |-> <<"m", "i", "d">>,
      input |-> <<"i", "n", "p", "u", "t">>,
      play_stream |-> <<"p", "l", "a", "y", "_", "s", "t", "r", "e", "a", "m">>,
      play_input |-> <<"p", "l", "a", "y", "_", "i", "n", "p", "u", "t">>,
      \* "player" and "system", the command groups
      group_player |-> <<"p", "l", "a", "y", "e", "r">>,
      group_system |-> <<"s", "y", "s", "t", "e", "m">>,
      \* "player/"
      player |-> <<"p", "l", "a", "y", "e", "r", "/">>,
      \* "browse/"
      browse_ |-> <<"b", "r", "o", "w", "s", "e", "/">>,
      \* "system/"
      system |-> <<"s", "y", "s", "t", "e", "m", "/">>,
      \* "get_players"
      get_players |-> <<"g", "e", "t", "_", "p", "l", "a", "y", "e", "r",
          "s">>,
      \* "get_play_state"
      get_play_state |-> <<"g", "e", "t", "_", "p", "l", "a", "y", "_", "s",
          "t", "a", "t", "e">>,
      \* "set_play_state"
      set_play_state |-> <<"s", "e", "t", "_", "p", "l", "a", "y", "_", "s",
          "t", "a", "t", "e">>,
      \* "get_now_playing_media"
      get_now_playing_media |-> <<"g", "e", "t", "_", "n", "o", "w", "_",
          "p", "l", "a", "y", "i", "n", "g", "_", "m", "e", "d", "i", "a">>,
      \* "get_volume"
      get_volume |-> <<"g", "e", "t", "_", "v", "o", "l", "u", "m", "e">>,
      \* "set_volume"
      set_volume |-> <<"s", "e", "t", "_", "v", "o", "l", "u", "m", "e">>,
      \* "volume_up"
      volume_up |-> <<"v", "o", "l", "u", "m", "e", "_", "u", "p">>,
      \* "volume_down"
      volume_down |-> <<"v", "o", "l", "u", "m", "e", "_", "d", "o", "w",
          "n">>,
      \* "get_mute"
      get_mute |-> <<"g", "e", "t", "_", "m", "u", "t", "e">>,
      \* "set_mute"
      set_mute |-> <<"s", "e", "t", "_", "m", "u", "t", "e">>,
      \* "toggle_mute"
      toggle_mute |-> <<"t", "o", "g", "g", "l", "e", "_", "m", "u", "t",
          "e">>,
      \* "get_play_mode"
      get_play_mode |-> <<"g", "e", "t", "_", "p", "l", "a", "y", "_", "m",
          "o", "d", "e">>,
      \* "set_play_mode"
      set_play_mode |-> <<"s", "e", "t", "_", "p", "l", "a", "y", "_", "m",
          "o", "d", "e">>,
      \* "get_queue"
      get_queue |-> <<"g", "e", "t", "_", "q", "u", "e", "u", "e">>,
      \* "get_music_sources"
      get_music_sources |-> <<"g", "e", "t", "_", "m", "u", "s", "i", "c",
          "_", "s", "o", "u", "r", "c", "e", "s">>,
      \* "browse"
      browse |-> <<"b", "r", "o", "w", "s", "e">>,
      \* "pid"
      pid |-> <<"p", "i", "d">>,
      \* "level"
      level |-> <<"l", "e", "v", "e", "l">>,
      \* "state"
      state |-> <<"s", "t", "a", "t", "e">>,
      \* "mute"
      mute |-> <<"m", "u", "t", "e">>,
      \* "repeat"
      repeat |-> <<"r", "e", "p", "e", "a", "t">>,
      \* "shuffle"
      shuffle |-> <<"s", "h", "u", "f", "f", "l", "e">>,
      \* "text"
      text |-> <<"t", "e", "x", "t">>,
      \* "play"
      play |-> <<"p", "l", "a", "y">>,
      \* "pause"
      pause |-> <<"p", "a", "u", "s", "e">>,
      \* "stop"
      stop |-> <<"s", "t", "o", "p">>,
      \* "on"
      on |-> <<"o", "n">>,
      \* "off"
      off |-> <<"o", "f", "f">>,
      \* "on_one"
      on_one |-> <<"o", "n", "_", "o", "n", "e">>,
      \* "on_all"
      on_all |-> <<"o", "n", "_", "a", "l", "l">>,
      \* "success"
      success |-> <<"s", "u", "c", "c", "e", "s", "s">>,
      \* "fail"
      fail |-> <<"f", "a", "i", "l">>,
      \* "Connected to HEOS device"
      connected |-> <<"C", "o", "n", "n", "e", "c", "t", "e", "d", " ", "t",
          "o", " ", "H", "E", "O", "S", " ", "d", "e", "v", "i", "c", "e">>,
      \* "Disconnected from HEOS device"
      disconnected |-> <<"D", "i", "s", "c", "o", "n", "n", "e", "c", "t",
          "e", "d", " ", "f", "r", "o", "m", " ", "H", "E", "O", "S", " ",
          "d", "e", "v", "i", "c", "e">>,
      \* "Error: "
      error |-> <<"E", "r", "r", "o", "r", ":", " ">>,
      \* "AVR control connected"
      avr_connected |-> <<"A", "V", "R", " ", "c", "o", "n", "t", "r", "o",
          "l", " ", "c", "o", "n", "n", "e", "c", "t", "e", "d">>,
      \* "AVR Error: "
      avr_error |-> <<"A", "V", "R", " ", "E", "r", "r", "o", "r", ":", " ">>,
      \* "Error getting player state: "
      error_getting |-> <<"E", "r", "r", "o", "r", " ", "g", "e", "t", "t",
          "i", "n", "g", " ", "p", "l", "a", "y", "e", "r", " ", "s", "t",
          "a", "t", "e", ":", " ">>,
      \* "Client disconnected"
      client_disconnected |-> <<"C", "l", "i", "e", "n", "t", " ", "d", "i",
          "s", "c", "o", "n", "n", "e", "c", "t", "e", "d">>,
      \* "Read error: reset"
      read_error |-> <<"R", "e", "a", "d", " ", "e", "r", "r", "o", "r", ":",
          " ", "r", "e", "s", "e", "t">>,
      \* "No HEOS device found"
      no_device |-> <<"N", "o", " ", "H", "E", "O", "S", " ", "d", "e", "v",
          "i", "c", "e", " ", "f", "o", "u", "n", "d">>,
      \* "ID Not Valid"
      not_valid |-> <<"I", "D", " ", "N", "o", "t", " ", "V", "a", "l", "i",
          "d">>,
      \* "heos_server"
      heos_server |-> <<"h", "e", "o", "s", "_", "s", "e", "r", "v", "e",
          "r">>,
      \* "music_service"
      music_service |-> <<"m", "u", "s", "i", "c", "_", "s", "e", "r", "v",
          "i", "c", "e">>,
      \* "TV"
      TV |-> <<"T", "V">>,
      \* "STEREO"
      STEREO |-> <<"S", "T", "E", "R", "E", "O">>,
      \* "Input"
      Input |-> <<"I", "n", "p", "u", "t">>,
      \* "event/player_state_changed"
      ev_player_state_changed |-> <<"e", "v", "e", "n", "t", "/", "p", "l",
          "a", "y", "e", "r", "_", "s", "t", "a", "t", "e", "_", "c", "h",
          "a", "n", "g", "e", "d">>,
      \* "event/player_now_playing_changed"
      ev_player_now_playing_changed |-> <<"e", "v", "e", "n", "t", "/", "p",
          "l", "a", "y", "e", "r", "_", "n", "o", "w", "_", "p", "l", "a",
          "y", "i", "n", "g", "_", "c", "h", "a", "n", "g", "e", "d">>,
      \* "event/player_volume_changed"
      ev_player_volume_changed |-> <<"e", "v", "e", "n", "t", "/", "p", "l",
          "a", "y", "e", "r", "_", "v", "o", "l", "u", "m", "e", "_", "c",
          "h", "a", "n", "g", "e", "d">>,
      \* "event/player_queue_changed"
      ev_player_queue_changed |-> <<"e", "v", "e", "n", "t", "/", "p", "l",
          "a", "y", "e", "r", "_", "q", "u", "e", "u", "e", "_", "c", "h",
          "a", "n", "g", "e", "d">>,
      \* "event/repeat_mode_changed"
      ev_repeat_mode_changed |-> <<"e", "v", "e", "n", "t", "/", "r", "e",
          "p", "e", "a", "t", "_", "m", "o", "d", "e", "_", "c", "h", "a",
          "n", "g", "e", "d">>,
      \* "event/shuffle_mode_changed"
      ev_shuffle_mode_changed |-> <<"e", "v", "e", "n", "t", "/", "s", "h",
          "u", "f", "f", "l", "e", "_", "m", "o", "d", "e", "_", "c", "h",
          "a", "n", "g", "e", "d">>,
      \* "event/players_changed"
      ev_players_changed |-> <<"e", "v", "e", "n", "t", "/", "p", "l", "a",
          "y", "e", "r", "s", "_", "c", "h", "a", "n", "g", "e", "d">>,
      \* "event/groups_changed"
      ev_groups_changed |-> <<"e", "v", "e", "n", "t", "/", "g", "r", "o",
          "u", "p", "s", "_", "c", "h", "a", "n", "g", "e", "d">>,
      \* "eid"
      eid |-> <<"e", "i", "d">>
    ]

\* i64::to_string / u8::to_string.
RECURSIVE NatToStr(_)
NatToStr(n) ==
    IF n < 10 THEN <<Digits[n + 1]>>
    ELSE NatToStr(n \div 10) \o <<Digits[(n % 10) + 1]>>

IntToStr(n) == IF n < 0 THEN <<"-">> \o NatToStr(0 - n) ELSE NatToStr(n)

\* str::contains(pat)
Contains(s, pat) ==
    \E i \in 1..(Len(s) - Len(pat) + 1) : SubSeq(s, i, i + Len(pat) - 1) = pat

-----------------------------------------------------------------------------
(* heos/types.rs *)

PlayState_from_str(s) ==
    CASE s = Str.play  -> "Play"
      [] s = Str.pause -> "Pause"
      [] s = Str.stop  -> "Stop"
      [] OTHER         -> "Unknown"

MuteState_from_str(s) == IF s = Str.on THEN "On" ELSE "Off"

RepeatMode_from_str(s) ==
    CASE s = Str.on_one -> "OnOne"
      [] s = Str.on_all -> "OnAll"
      [] OTHER          -> "Off"

ShuffleMode_from_str(s) == IF s = Str.on THEN "On" ELSE "Off"

\* A roster entry; the pid is what the Reconciler reads of it.
Player(p) == [pid |-> p]

\* NowPlayingMedia::default() and one non-default value.
NowPlayingMedia_default == [song |-> "", station |-> ""]
SomeMedia == [song |-> "Song", station |-> "Radio"]

PlayerState_default ==
    [ player      |-> None,
      now_playing |-> NowPlayingMedia_default,
      play_state  |-> "Unknown",
      volume      |-> 0,
      mute        |-> "Off",
      repeat      |-> "Off",
      shuffle     |-> "Off" ]

AvrState_default ==
    [ connected     |-> FALSE,
      power         |-> FALSE,
      master_volume |-> 0,
      muted         |-> FALSE,
      surround_mode |-> <<>>,
      input_source  |-> <<>> ]

-----------------------------------------------------------------------------
(* heos/protocol.rs: the envelope *)

\* The payload of an envelope: JSON null, an array of records of one shape, or
\* one object.  An array decodes as Vec<T> when its elements have the shape of
\* T (an empty array decodes as any Vec<T>); an object decodes as T likewise.
NullPayload == [tag |-> "null"]
ArrayPayload(shape, items) == [tag |-> "array", shape |-> shape, items |-> items]
ObjectPayload(shape, value) == [tag |-> "object", shape |-> shape, value |-> value]

HeosResponse(command, result, message, payload) ==
    [command |-> command, result |-> result, message |-> message, payload |-> payload]

\* Mutant: any result flag counts as success.
is_success_any(response) == response.result # None

is_success(response) == response.result = Some(Str.success)

\* A test that takes every envelope that is not a success for an event.
is_event_unless_success(response) == response.result # Some(Str.success)

is_event(response) == response.result = None

parse_message(response) == parse_message_string(response.message)

get_payload_array(response, shape) ==
    LET p == response.payload
    IN  IF p.tag = "array" /\ (p.items = <<>> \/ p.shape = shape)
        THEN Some(p.items)
        ELSE None

get_payload_object(response, shape) ==
    LET p == response.payload
    IN  IF p.tag = "object" /\ p.shape = shape THEN Some(p.value) ELSE None

\* HeosCommand: group, command and the ordered parameter list.
HeosCommand(group, command, params) ==
    [group |-> group, command |-> command, params |-> params]

\* An encoding that leaves the parameters out.
to_string_bare(cmd) ==
    Str.scheme \o cmd.group \o <<"/">> \o cmd.command \o Str.crlf

\* HeosCommand::to_string: "heos://group/command", then '?' and the key=value
\* pairs joined by '&' when there are parameters, then "\r\n".
to_string(cmd) ==
    LET RECURSIVE join(_)
        join(i) ==
            IF i = Len(cmd.params)
            THEN cmd.params[i][1] \o <<"=">> \o cmd.params[i][2]
            ELSE cmd.params[i][1] \o <<"=">> \o cmd.params[i][2] \o <<"&">> \o join(i + 1)
    IN  Str.scheme \o cmd.group \o <<"/">> \o cmd.command
        \o (IF cmd.params # <<>> THEN <<"?">> \o join(1) ELSE <<>>)
        \o Str.crlf

get_play_state(pid) ==
    HeosCommand(Str.group_player, Str.get_play_state, << <<Str.pid, IntToStr(pid)>> >>)
get_now_playing_media(pid) ==
    HeosCommand(Str.group_player, Str.get_now_playing_media, << <<Str.pid, IntToStr(pid)>> >>)
get_volume(pid) ==
    HeosCommand(Str.group_player, Str.get_volume, << <<Str.pid, IntToStr(pid)>> >>)
get_mute(pid) ==
    HeosCommand(Str.group_player, Str.get_mute, << <<Str.pid, IntToStr(pid)>> >>)
get_play_mode(pid) ==
    HeosCommand(Str.group_player, Str.get_play_mode, << <<Str.pid, IntToStr(pid)>> >>)

-----------------------------------------------------------------------------
(* heos/client.rs: from an envelope to the event the read loop forwards *)

UnwrapOr(o, d) == IF IsSome(o) THEN Unwrap(o) ELSE d

PidOf(params) ==
    LET s == MapGet(params, Str.pid)
    IN  IF IsSome(s) THEN UnwrapOr(ParseI64(Unwrap(s)), 0) ELSE 0

\* HeosClient::handle_event: Some(event) for a recognized event name.
handle_event(response) ==
    LET command == response.command
        params  == parse_message(response)
        pid     == PidOf(params)
    IN  CASE command = Str.ev_player_state_changed ->
               LET s == MapGet(params, Str.state)
               IN  Some([type |-> "PlayerStateChanged", pid |-> pid,
                         state |-> IF IsSome(s) THEN PlayState_from_str(Unwrap(s))
                                   ELSE "Unknown"])
          [] command = Str.ev_player_now_playing_changed ->
               Some([type |-> "NowPlayingChanged", pid |-> pid])
          [] command = Str.ev_player_volume_changed ->
               LET l == MapGet(params, Str.level)
                   m == MapGet(params, Str.mute)
               IN  Some([type |-> "VolumeChanged", pid |-> pid,
                         level |-> IF IsSome(l) THEN UnwrapOr(ParseU8(Unwrap(l)), 0) ELSE 0,
                         mute  |-> IF IsSome(m) THEN MuteState_from_str(Unwrap(m))
                                   ELSE "Off"])
          [] command \in {Str.ev_repeat_mode_changed, Str.ev_shuffle_mode_changed} ->
               LET r == MapGet(params, Str.repeat)
                   s == MapGet(params, Str.shuffle)
               IN  Some([type |-> "PlayModeChanged", pid |-> pid,
                         repeat  |-> IF IsSome(r) THEN RepeatMode_from_str(Unwrap(r))
                                     ELSE "Off",
                         shuffle |-> IF IsSome(s) THEN ShuffleMode_from_str(Unwrap(s))
                                     ELSE "Off"])
          [] command = Str.ev_player_queue_changed ->
               Some([type |-> "QueueChanged", pid |-> pid])
          [] command = Str.ev_players_changed ->
               Some([type |-> "PlayersChanged", players |-> <<>>])
          [] OTHER -> None

\* The Ok(_) arm of the read loop for a decoded envelope: what it sends on the
\* event channel, if anything.
Forwarded(response) ==
    IF is_event(response) THEN handle_event(response)
    ELSE Some([type |-> "Response", response |-> response])

-----------------------------------------------------------------------------
(* app.rs: the App and the Event Reconciler *)

\* App::new.  The view and the list cursors belong to the presentation layer
\* and are left out: no Reconciler rule reads them.
App_new ==
    [ connection_state   |-> "Disconnected",
      status_message     |-> None,
      players            |-> <<>>,
      current_player_idx |-> 0,
      player_state       |-> PlayerState_default,
      queue              |-> <<>>,
      music_sources      |-> <<>>,
      browse_items       |-> <<>>,
      inputs             |-> <<>>,
      handle             |-> FALSE,
      avr_handle         |-> FALSE,
      avr_state          |-> AvrState_default ]

\* Vec::get with a zero-based index.
VecGet(v, idx) == IF idx < Len(v) THEN Some(v[idx + 1]) ELSE None

current_player(a) == VecGet(a.players, a.current_player_idx)

\* Mutant: the pid of the first roster entry, whichever player is active.
current_pid_first(a) == IF a.players = <<>> THEN None ELSE Some(a.players[1].pid)

current_pid(a) ==
    IF IsSome(current_player(a)) THEN Some(Unwrap(current_player(a)).pid) ELSE None

set_status(a, msg) == [a EXCEPT !.status_message = Some(msg)]

set_handle(a) == [a EXCEPT !.handle = TRUE, !.connection_state = "Connected"]

set_avr_handle(a) == [a EXCEPT !.avr_handle = TRUE, !.avr_state.connected = TRUE]

handle_response(a, response) ==
    LET cmd    == response.command
        params == parse_message(response)
    IN
    IF ~is_success(response)
    THEN IF IsSome(MapGet(params, Str.text))
         THEN set_status(a, Str.error \o Unwrap(MapGet(params, Str.text)))
         ELSE a
    ELSE IF Contains(cmd, Str.get_players)
    THEN LET players == get_payload_array(response, "Player")
         IN  IF IsSome(players)
             THEN IF Unwrap(players) # <<>> /\ a.player_state.player = None
                  THEN [a EXCEPT !.players = Unwrap(players),
                                 !.player_state.player = Some(Unwrap(players)[1])]
                  ELSE [a EXCEPT !.players = Unwrap(players)]
             ELSE a
    ELSE IF Contains(cmd, Str.get_play_state)
    THEN LET state == MapGet(params, Str.state)
         IN  IF IsSome(state)
             THEN [a EXCEPT !.player_state.play_state = PlayState_from_str(Unwrap(state))]
             ELSE a
    ELSE IF Contains(cmd, Str.get_now_playing_media)
    THEN LET media == get_payload_object(response, "NowPlayingMedia")
         IN  IF IsSome(media)
             THEN [a EXCEPT !.player_state.now_playing = Unwrap(media)]
             ELSE a
    ELSE IF \/ Contains(cmd, Str.get_volume)
            \/ Contains(cmd, Str.volume_up)
            \/ Contains(cmd, Str.volume_down)
    THEN LET s     == MapGet(params, Str.level)
             level == IF IsSome(s) THEN ParseU8(Unwrap(s)) ELSE None
         IN  IF IsSome(level)
             THEN [a EXCEPT !.player_state.volume = Unwrap(level)]
             ELSE a
    ELSE IF \/ Contains(cmd, Str.get_mute)
            \/ Contains(cmd, Str.set_mute)
            \/ Contains(cmd, Str.toggle_mute)
    THEN LET state == MapGet(params, Str.state)
         IN  IF IsSome(state)
             THEN [a EXCEPT !.player_state.mute = MuteState_from_str(Unwrap(state))]
             ELSE a
    ELSE IF Contains(cmd, Str.get_play_mode) \/ Contains(cmd, Str.set_play_mode)
    THEN LET repeat  == MapGet(params, Str.repeat)
             shuffle == MapGet(params, Str.shuffle)
             a1 == IF IsSome(repeat)
                   THEN [a EXCEPT !.player_state.repeat =
                                      RepeatMode_from_str(Unwrap(repeat))]
                   ELSE a
         IN  IF IsSome(shuffle)
             THEN [a1 EXCEPT !.player_state.shuffle =
                                 ShuffleMode_from_str(Unwrap(shuffle))]
             ELSE a1
    ELSE IF Contains(cmd, Str.get_queue)
    THEN LET queue == get_payload_array(response, "QueueItem")
         IN  IF IsSome(queue) THEN [a EXCEPT !.queue = Unwrap(queue)] ELSE a
    ELSE IF Contains(cmd, Str.get_music_sources)
    THEN LET sources == get_payload_array(response, "MusicSource")
             NotServer(s) == s.source_type # Str.heos_server
             IsInput(s) == s.source_type = Str.heos_server \/ Contains(s.name, Str.Input)
         IN  IF IsSome(sources)
             THEN [a EXCEPT !.music_sources = SelectSeq(Unwrap(sources), NotServer),
                            !.inputs = SelectSeq(Unwrap(sources), IsInput)]
             ELSE a
    ELSE IF Contains(cmd, Str.browse)
    THEN LET items == get_payload_array(response, "BrowseItem")
         IN  IF IsSome(items) THEN [a EXCEPT !.browse_items = Unwrap(items)] ELSE a
    ELSE a

\* Mutant: the receiver, on the same host, is marked disconnected too.
heos_disconnected_both(a) ==
    [set_status([a EXCEPT !.connection_state = "Disconnected"], Str.disconnected)
        EXCEPT !.handle = FALSE, !.avr_state.connected = FALSE]

\* The Disconnected arm of handle_heos_event.
heos_disconnected(a) ==
    [set_status([a EXCEPT !.connection_state = "Disconnected"], Str.disconnected)
        EXCEPT !.handle = FALSE]

handle_heos_event(a, event) ==
    CASE event.type = "Connected" ->
           set_status([a EXCEPT !.connection_state = "Connected"], Str.connected)
      [] event.type = "Disconnected" -> heos_disconnected(a)
      [] event.type = "PlayersChanged" ->
           IF event.players # <<>> THEN [a EXCEPT !.players = event.players] ELSE a
      [] event.type = "PlayerStateChanged" ->
           IF current_pid(a) = Some(event.pid)
           THEN [a EXCEPT !.player_state.play_state = event.state]
           ELSE a
      [] event.type = "NowPlayingChanged" -> a
      [] event.type = "VolumeChanged" ->
           IF current_pid(a) = Some(event.pid)
           THEN [a EXCEPT !.player_state.volume = event.level,
                          !.player_state.mute = event.mute]
           ELSE a
      [] event.type = "PlayModeChanged" ->
           IF current_pid(a) = Some(event.pid)
           THEN [a EXCEPT !.player_state.repeat = event.repeat,
                          !.player_state.shuffle = event.shuffle]
           ELSE a
      [] event.type = "QueueChanged" -> a
      [] event.type = "Error" -> set_status(a, Str.error \o event.msg)
      [] event.type = "Response" -> handle_response(a, event.response)

handle_avr_event(a, event) ==
    CASE event.type = "Connected" ->
           set_status([a EXCEPT !.avr_state.connected = TRUE], Str.avr_connected)
      [] event.type = "Disconnected" ->
           [a EXCEPT !.avr_state.connected = FALSE, !.avr_handle = FALSE]
      [] event.type = "MasterVolume" -> [a EXCEPT !.avr_state.master_volume = event.vol]
      [] event.type = "Mute" -> [a EXCEPT !.avr_state.muted = event.muted]
      [] event.type = "Power" -> [a EXCEPT !.avr_state.power = event.on]
      [] event.type = "SurroundMode" -> [a EXCEPT !.avr_state.surround_mode = event.mode]
      [] event.type = "InputSource" -> [a EXCEPT !.avr_state.input_source = event.input]
      [] event.type = "Error" -> set_status(a, Str.avr_error \o event.msg)
      [] event.type = "Response" -> a

\* HeosHandle::send, as the control loop sees it in one step: the commands are
\* accepted in order while the command channel has a receiver, and the first
\* refused one ends the caller with Err (the `?` after each send).
SendAll(cmds, open) ==
    IF open THEN [accepted |-> cmds, ok |-> TRUE]
    ELSE [accepted |-> <<>>, ok |-> cmds = <<>>]

refresh_player_state(a, open) ==
    IF a.handle /\ IsSome(current_pid(a))
    THEN LET pid == Unwrap(current_pid(a))
         IN  SendAll(<< get_play_state(pid), get_now_playing_media(pid), get_volume(pid),
                        get_mute(pid), get_play_mode(pid) >>, open)
    ELSE SendAll(<<>>, open)

\* Mutant: the new player is recorded and the other fields are kept.
select_player_keep(a, idx, open) ==
    IF idx < Len(a.players)
    THEN LET a1 == [a EXCEPT !.current_player_idx = idx,
                             !.player_state.player = VecGet(a.players, idx)]
             r  == refresh_player_state(a1, open)
         IN  [app |-> a1, accepted |-> r.accepted, ok |-> r.ok]
    ELSE [app |-> a, accepted |-> <<>>, ok |-> TRUE]

\* App::select_player: the state it leaves and the commands it submitted.
select_player(a, idx, open) ==
    IF idx < Len(a.players)
    THEN LET a1 == [a EXCEPT !.current_player_idx = idx,
                             !.player_state =
                                 [PlayerState_default EXCEPT
                                     !.player = VecGet(a.players, idx)]]
             r  == refresh_player_state(a1, open)
         IN  [app |-> a1, accepted |-> r.accepted, ok |-> r.ok]
    ELSE [app |-> a, accepted |-> <<>>, ok |-> TRUE]

-----------------------------------------------------------------------------
(* The lines the devices send, decoded *)

KV(k, v) == k \o <<"=">> \o v
Amp(x, y) == x \o <<"&">> \o y
PidKV(p) == KV(Str.pid, IntToStr(p))

Pids == 1..MaxPid
Levels == {37}

\* The rosters a get_players payload carries: none, the players 1..n in
\* order, and all of them in the opposite order.
FullRoster == [i \in 1..MaxPid |-> i]
Rosters ==
    {<<>>} \cup { SubSeq(FullRoster, 1, n) : n \in 1..MaxPid }
           \cup { [i \in 1..MaxPid |-> MaxPid + 1 - i] }

RosterPayload(r) == ArrayPayload("Player", [i \in 1..Len(r) |-> Player(r[i])])

SomeSources ==
    << [sid |-> 1, name |-> Str.TV, source_type |-> Str.music_service],
       [sid |-> 2, name |-> Str.Input, source_type |-> Str.heos_server] >>

\* Envelopes without a result flag.
EventEnvelopes ==
    { HeosResponse(Str.ev_player_state_changed, None,
                   Amp(PidKV(p), KV(Str.state, Str.play)), NullPayload) : p \in Pids }
    \cup { HeosResponse(Str.ev_player_now_playing_changed, None, PidKV(p), NullPayload) :
          p \in Pids }
    \cup { HeosResponse(Str.ev_player_volume_changed, None,
                   Amp(Amp(PidKV(p), KV(Str.level, IntToStr(l))), KV(Str.mute, Str.on)),
                   NullPayload) :
          p \in Pids, l \in Levels }
    \cup { HeosResponse(Str.ev_repeat_mode_changed, None,
                   Amp(PidKV(p), KV(Str.repeat, Str.on_all)), NullPayload) : p \in Pids }
    \cup { HeosResponse(Str.ev_shuffle_mode_changed, None,
                   Amp(PidKV(p), KV(Str.shuffle, Str.on)), NullPayload) : p \in Pids }
    \cup { HeosResponse(Str.ev_player_queue_changed, None, PidKV(p), NullPayload) :
          p \in Pids }
    \cup { HeosResponse(Str.ev_players_changed, None, <<>>, NullPayload),
           HeosResponse(Str.ev_groups_changed, None, <<>>, NullPayload) }

\* Envelopes with result "success" whose message names a player.
PlayerSuccessEnvelopes ==
    { HeosResponse(Str.player \o Str.get_play_state, Some(Str.success),
                   Amp(PidKV(p), KV(Str.state, Str.pause)), NullPayload) : p \in Pids }
    \cup { HeosResponse(Str.player \o Str.get_now_playing_media, Some(Str.success),
                   PidKV(p), ObjectPayload("NowPlayingMedia", SomeMedia)) : p \in Pids }
    \cup { HeosResponse(Str.player \o Str.get_volume, Some(Str.success),
                   Amp(PidKV(p), KV(Str.level, IntToStr(l))), NullPayload) :
          p \in Pids, l \in Levels }
    \cup { HeosResponse(Str.player \o Str.get_mute, Some(Str.success),
                   Amp(PidKV(p), KV(Str.state, Str.on)), NullPayload) : p \in Pids }
    \cup { HeosResponse(Str.player \o Str.get_play_mode, Some(Str.success),
                   Amp(Amp(PidKV(p), KV(Str.repeat, Str.on_one)), KV(Str.shuffle, Str.on)),
                   NullPayload) : p \in Pids }

\* The other envelopes with result "success".
OtherSuccessEnvelopes ==
    { HeosResponse(Str.player \o Str.get_players, Some(Str.success), <<>>, pl) :
          pl \in {RosterPayload(r) : r \in Rosters} \cup {NullPayload} }
    \cup { HeosResponse(Str.player \o Str.get_queue, Some(Str.success), PidKV(1),
                   ArrayPayload("QueueItem", <<[qid |-> 1]>>)),
           HeosResponse(Str.browse_ \o Str.get_music_sources, Some(Str.success), <<>>,
                   ArrayPayload("MusicSource", SomeSources)),
           HeosResponse(Str.browse_ \o Str.browse, Some(Str.success), <<>>,
                   ArrayPayload("BrowseItem", <<[name |-> Str.TV]>>)) }

SuccessEnvelopes == PlayerSuccessEnvelopes \cup OtherSuccessEnvelopes

\* Envelopes with another result flag: one per command, with the message and
\* payload of the successful one and a text added; and two without a text.
FailedEnvelopes ==
    { [r EXCEPT !.result = Some(Str.fail),
                !.message = IF r.message = <<>> THEN KV(Str.text, Str.not_valid)
                            ELSE Amp(r.message, KV(Str.text, Str.not_valid))] :
          r \in { s \in SuccessEnvelopes :
                      /\ PidOf(parse_message(s)) \in {0, 1}
                      /\ s.payload \in {NullPayload, RosterPayload(FullRoster)}
                            \/ s.payload.tag # "array" \/ s.payload.shape # "Player" } }
    \cup { [r EXCEPT !.result = Some(Str.fail)] :
          r \in { s \in SuccessEnvelopes :
                      /\ Contains(s.command, Str.get_volume) \/ Contains(s.command, Str.browse)
                      /\ PidOf(parse_message(s)) \in {0, 1} } }

Envelopes == EventEnvelopes \cup SuccessEnvelopes \cup FailedEnvelopes

\* What a live player session puts on the event channel: the forwarded
\* envelopes and the notifications of the read loop and of connect.
SessionHeosEvents ==
    { Unwrap(Forwarded(r)) : r \in { e \in Envelopes : IsSome(Forwarded(e)) } }
    \cup { [type |-> "Connected"], [type |-> "Disconnected"],
           [type |-> "Error", msg |-> Str.read_error] }

\* What a live receiver session puts on the event channel.
SessionAvrEvents ==
    { [type |-> "Connected"], [type |-> "Disconnected"],
      [type |-> "MasterVolume", vol |-> 45],
      [type |-> "Mute", muted |-> TRUE],
      [type |-> "Power", on |-> TRUE],
      [type |-> "SurroundMode", mode |-> Str.STEREO],
      [type |-> "InputSource", input |-> Str.TV],
      [type |-> "Error", msg |-> Str.read_error],
      [type |-> "Response", line |-> Str.on] }

-----------------------------------------------------------------------------
(* main.rs: the control loop *)

\* The control loop is at its select! (pc "select"), or has taken a message
\* from one of its channels and run the branch of that message (pc "done",
\* the message in input) and is about to loop.
AtSelect == [pc |-> "select"]

\* Both connection tasks of main.rs as they are spawned (main.rs:70, 107): no
\* session made, no handle sent or held.
ConnStart ==
    [k \in {"heos", "avr"} |->
        [pc |-> "start", made |-> 0, live |-> {}, chan |-> <<>>, held |-> 0]]

\* Nothing has been decoded or encoded.
NoCalc == [op |-> "none"]

\* No session is followed: the control loop is taken with the events its
\* sessions can deliver.
SessionAtRest ==
    /\ kind = "heos"
    /\ reader = [pc |-> "done", lines |-> 0, item |-> [id |-> 0, type |-> "none"]]
    /\ evq = <<>>
    /\ applied = <<>>
    /\ disc = FALSE
    /\ write_half = FALSE
    /\ writer = [pc |-> "done", cmd |-> 0, why |-> "none", out |-> <<>>]
    /\ cmdq = <<>>
    /\ waiters = <<>>
    /\ task = [pc |-> "done", left |-> 0]
    /\ ctl = [handle |-> "none", pc |-> "select"]
    /\ results = <<>>
    /\ enq = <<>>

Init ==
    /\ app = [App_new EXCEPT !.connection_state = "Discovering"]
    /\ appH = [App_new EXCEPT !.connection_state = "Discovering"]
    /\ appA = [App_new EXCEPT !.connection_state = "Discovering"]
    /\ sent = <<>>
    /\ cmd_open = TRUE
    /\ heos_task = "running"
    /\ avr_task = "running"
    /\ steps = 0
    /\ loop = AtSelect
    /\ SessionAtRest
    /\ conn = ConnStart
    /\ calc = NoCalc
    /\ ssdp = [pc |-> "idle"]

\* The HEOS connection task (main.rs:70-101) has connected: the session exists
\* and its handle waits in handle_rx; or it has found no device or could not
\* connect: its Error notification waits in heos_rx.  The steps of the other
\* tasks are taken between two iterations of the control loop.
HeosTask ==
    /\ loop.pc = "select"
    /\ heos_task = "running"
    /\ heos_task' \in {"sent", "failed"}
    /\ UNCHANGED <<app, appH, appA, sent, cmd_open, avr_task, steps, loop>>
    /\ UNCHANGED <<sessvars, auxvars>>

\* The AVR connection task (main.rs:107-129) has connected.
AvrTask ==
    /\ loop.pc = "select"
    /\ avr_task = "running"
    /\ avr_task' = "sent"
    /\ UNCHANGED <<app, appH, appA, sent, cmd_open, heos_task, steps, loop>>
    /\ UNCHANGED <<sessvars, auxvars>>

\* The write loop of the player session ends (client.rs:191-206), which drops
\* the receiver of the command channel.
WriterExits ==
    /\ loop.pc = "select"
    /\ heos_task \in {"sent", "taken"}
    /\ cmd_open
    /\ cmd_open' = FALSE
    /\ UNCHANGED <<app, appH, appA, sent, heos_task, avr_task, steps, loop>>
    /\ UNCHANGED <<sessvars, auxvars>>

\* Mutant: the refresh is submitted after every event, whatever its pid.
AutoRefresh_always(a, should_refresh, open) ==
    IF IsSome(current_pid(a)) /\ a.handle
    THEN SendAll(<<get_now_playing_media(Unwrap(current_pid(a)))>>, open).accepted
    ELSE <<>>

\* The commands the heos_rx branch submits after the Reconciler ran
\* (main.rs:171-177).
AutoRefresh(a, should_refresh, open) ==
    IF should_refresh /\ IsSome(current_pid(a)) /\ a.handle
    THEN SendAll(<<get_now_playing_media(Unwrap(current_pid(a)))>>, open).accepted
    ELSE <<>>

\* main.rs:161-178
HeosEventStep(a, ev, open) ==
    LET should_refresh == ev.type = "NowPlayingChanged" /\ current_pid(a) = Some(ev.pid)
        a1 == handle_heos_event(a, ev)
    IN  [app |-> a1, accepted |-> AutoRefresh(a1, should_refresh, open)]

\* main.rs:179-181
AvrEventStep(a, ev) == [app |-> handle_avr_event(a, ev), accepted |-> <<>>]

\* main.rs:182-188
HandleStep(a, open) ==
    LET a1 == set_handle(a)
        r  == refresh_player_state(a1, open)
    IN  [app |-> IF r.ok THEN a1
                 ELSE set_status(a1, Str.error_getting \o Str.client_disconnected),
         accepted |-> r.accepted]

\* main.rs:189-191
AvrHandleStep(a) == [app |-> set_avr_handle(a), accepted |-> <<>>]

\* handle_select in the Devices view (main.rs:397-403).
SelectStep(a, idx, open) ==
    LET r == select_player(a, idx, open)
    IN  [app |-> IF r.ok THEN r.app
                 ELSE set_status(r.app, Str.error \o Str.client_disconnected),
         accepted |-> r.accepted]

\* The branch of select! that a message runs, on state a.
Branch(a, input, open) ==
    CASE input.op = "heos_event" -> HeosEventStep(a, input.ev, open)
      [] input.op = "avr_event"  -> AvrEventStep(a, input.ev)
      [] input.op = "handle"     -> HandleStep(a, open)
      [] input.op = "avr_handle" -> AvrHandleStep(a)
      [] input.op = "select"     -> SelectStep(a, input.idx, open)

PlayerSide(input) == input.op \in {"heos_event", "handle", "select"}

\* One iteration of the control loop: select! takes a message and runs its
\* branch.
Iterate(input) ==
    /\ loop.pc = "select"
    /\ steps < MaxSteps
    /\ app' = Branch(app, input, cmd_open).app
    /\ sent' = Branch(app, input, cmd_open).accepted
    /\ appH' = IF PlayerSide(input) THEN Branch(appH, input, cmd_open).app ELSE appH
    /\ appA' = IF PlayerSide(input) THEN appA ELSE Branch(appA, input, cmd_open).app
    /\ loop' = [pc |-> "done", input |-> input]
    /\ steps' = steps + 1
    /\ UNCHANGED cmd_open
    /\ UNCHANGED <<sessvars, auxvars>>

\* A player event (main.rs:161): one of the session, or the Error
\* notification of the connection task that made no session (main.rs:91-100).
RecvHeosEvent ==
    \/ \E ev \in SessionHeosEvents :
        /\ heos_task \in {"sent", "taken"}
        /\ Iterate([op |-> "heos_event", ev |-> ev])
        /\ UNCHANGED <<heos_task, avr_task>>
    \/ /\ heos_task = "failed"
       /\ heos_task' = "reported"
       /\ Iterate([op |-> "heos_event", ev |-> [type |-> "Error", msg |-> Str.no_device]])
       /\ UNCHANGED avr_task

\* A receiver event (main.rs:179).
RecvAvrEvent ==
    \E ev \in SessionAvrEvents :
        /\ avr_task \in {"sent", "taken"}
        /\ Iterate([op |-> "avr_event", ev |-> ev])
        /\ UNCHANGED <<heos_task, avr_task>>

\* The player handle (main.rs:182).
RecvHandle ==
    /\ heos_task = "sent"
    /\ heos_task' = "taken"
    /\ Iterate([op |-> "handle"])
    /\ UNCHANGED avr_task

\* The receiver handle (main.rs:189).
RecvAvrHandle ==
    /\ avr_task = "sent"
    /\ avr_task' = "taken"
    /\ Iterate([op |-> "avr_handle"])
    /\ UNCHANGED heos_task

\* The Select key in the Devices view with the cursor at idx
\* (main.rs:146-150, 294, 397-399).
SelectDevice ==
    \E idx \in 0..(MaxPid - 1) :
        /\ Iterate([op |-> "select", idx |-> idx])
        /\ UNCHANGED <<heos_task, avr_task>>

\* The loop goes round to its select! (main.rs:140-145, 194-196).
LoopBack ==
    /\ loop.pc = "done"
    /\ loop' = AtSelect
    /\ sent' = <<>>
    /\ UNCHANGED <<app, appH, appA, cmd_open, heos_task, avr_task, steps>>
    /\ UNCHANGED <<sessvars, auxvars>>

Next ==
    \/ HeosTask
    \/ AvrTask
    \/ WriterExits
    \/ RecvHeosEvent
    \/ RecvAvrEvent
    \/ RecvHandle
    \/ RecvAvrHandle
    \/ SelectDevice
    \/ LoopBack

Spec == Init /\ [][Next]_vars

-----------------------------------------------------------------------------
(* heos/avr.rs, heos/client.rs: what the read loop makes of a socket line *)

AvrStr ==
    [ MV      |-> <<"M", "V">>,
      MVMAX   |-> <<"M", "V", "M", "A", "X">>,
      MU      |-> <<"M", "U">>,
      PW      |-> <<"P", "W">>,
      SI      |-> <<"S", "I">>,
      MS      |-> <<"M", "S">>,
      ON      |-> <<"O", "N">>,
      OFF     |-> <<"O", "F", "F">>,
      STANDBY |-> <<"S", "T", "A", "N", "D", "B", "Y">> ]

\* A prefix test that looks at the first character only.
StartsWith_first_char(s, p) == s # <<>> /\ s[1] = p[1]
\* A slice that starts one character early.
SliceFrom_one_early(s, n) == SubSeq(s, n, Len(s))

\* str::starts_with and the slice &s[n..]
StartsWith(s, p) == Len(s) >= Len(p) /\ SubSeq(s, 1, Len(p)) = p
SliceFrom(s, n) == SubSeq(s, n + 1, Len(s))

\* str::len: the length of a string in UTF-8 bytes.  "U+00E9" is the one
\* character of the model that is not ASCII; it takes two bytes.
RECURSIVE str_len(_)
str_len(s) == IF s = <<>> THEN 0 ELSE (IF s[1] = "U+00E9" THEN 2 ELSE 1) + str_len(Tail(s))

\* AvrClient::handle_response panics: the slice vol_str[..2] of a volume
\* suffix of three bytes that is no u8, where byte 2 is inside a character.
handle_response_panics(response) ==
    /\ StartsWith(response, AvrStr.MV) /\ ~StartsWith(response, AvrStr.MVMAX)
    /\ LET vol_str == SliceFrom(response, 2)
       IN  /\ ~IsSome(ParseU8(vol_str))
           /\ str_len(vol_str) = 3
           /\ \A k \in 0..Len(vol_str) : str_len(SubSeq(vol_str, 1, k)) # 2

\* AvrClient::handle_response: the event a trimmed, non-empty line yields
\* (where handle_response_panics holds the function does not return, and the
\* value given here is never delivered).
avr_handle_response(response) ==
    IF StartsWith(response, AvrStr.MV) /\ ~StartsWith(response, AvrStr.MVMAX)
    THEN LET vol_str == SliceFrom(response, 2)
             cut == { k \in 0..Len(vol_str) : str_len(SubSeq(vol_str, 1, k)) = 2 }
             head == IF cut = {} THEN <<>> ELSE SubSeq(vol_str, 1, CHOOSE k \in cut : TRUE)
         IN  IF IsSome(ParseU8(vol_str))
             THEN Some([type |-> "MasterVolume", vol |-> Unwrap(ParseU8(vol_str))])
             ELSE IF str_len(vol_str) = 3 /\ cut # {} /\ IsSome(ParseU8(head))
                  THEN Some([type |-> "MasterVolume", vol |-> Unwrap(ParseU8(head))])
                  ELSE None
    ELSE IF StartsWith(response, AvrStr.MU)
    THEN CASE SliceFrom(response, 2) = AvrStr.ON -> Some([type |-> "Mute", muted |-> TRUE])
           [] SliceFrom(response, 2) = AvrStr.OFF -> Some([type |-> "Mute", muted |-> FALSE])
           [] OTHER -> None
    ELSE IF StartsWith(response, AvrStr.PW)
    THEN CASE SliceFrom(response, 2) = AvrStr.ON -> Some([type |-> "Power", on |-> TRUE])
           [] SliceFrom(response, 2) \in {AvrStr.STANDBY, AvrStr.OFF} ->
                Some([type |-> "Power", on |-> FALSE])
           [] OTHER -> None
    ELSE IF StartsWith(response, AvrStr.SI)
    THEN Some([type |-> "InputSource", input |-> SliceFrom(response, 2)])
    ELSE IF StartsWith(response, AvrStr.MS)
    THEN Some([type |-> "SurroundMode", mode |-> SliceFrom(response, 2)])
    ELSE Some([type |-> "Response", line |-> response])

-----------------------------------------------------------------------------
(* avr.rs: the surround modes *)

\* SurroundMode::all
SurroundMode_all ==
    << "Movie", "Music", "Game", "Direct", "PureDirect", "Stereo", "Auto", "DolbyDigital",
       "DtsSurround", "MultiChStereo", "RockArena", "JazzClub", "MonoMovie", "Matrix", "VideoGame", "Virtual" >>

\* A command table that gives every mode the token of the first one.
SurroundMode_command_first(m) == <<"M", "S", "M", "O", "V", "I", "E">>

\* SurroundMode::command
SurroundMode_command(m) ==
    CASE m = "Movie" -> <<"M", "S", "M", "O", "V", "I", "E">>
      [] m = "Music" -> <<"M", "S", "M", "U", "S", "I", "C">>
      [] m = "Game" -> <<"M", "S", "G", "A", "M", "E">>
      [] m = "Direct" -> <<"M", "S", "D", "I", "R", "E", "C", "T">>
      [] m = "PureDirect" -> <<"M", "S", "P", "U", "R", "E", " ", "D", "I", "R", "E", "C", "T">>
      [] m = "Stereo" -> <<"M", "S", "S", "T", "E", "R", "E", "O">>
      [] m = "Auto" -> <<"M", "S", "A", "U", "T", "O">>
      [] m = "DolbyDigital" -> <<"M", "S", "D", "O", "L", "B", "Y", " ", "D", "I", "G", "I", "T", "A", "L">>
      [] m = "DtsSurround" -> <<"M", "S", "D", "T", "S", " ", "S", "U", "R", "R", "O", "U", "N", "D">>
      [] m = "MultiChStereo" -> <<"M", "S", "M", "C", "H", " ", "S", "T", "E", "R", "E", "O">>
      [] m = "RockArena" -> <<"M", "S", "R", "O", "C", "K", " ", "A", "R", "E", "N", "A">>
      [] m = "JazzClub" -> <<"M", "S", "J", "A", "Z", "Z", " ", "C", "L", "U", "B">>
      [] m = "MonoMovie" -> <<"M", "S", "M", "O", "N", "O", " ", "M", "O", "V", "I", "E">>
      [] m = "Matrix" -> <<"M", "S", "M", "A", "T", "R", "I", "X">>
      [] m = "VideoGame" -> <<"M", "S", "V", "I", "D", "E", "O", " ", "G", "A", "M", "E">>
      [] m = "Virtual" -> <<"M", "S", "V", "I", "R", "T", "U", "A", "L">>

\* SurroundMode::display_name
SurroundMode_display_name(m) ==
    CASE m = "Movie" -> <<"M", "o", "v", "i", "e">>
      [] m = "Music" -> <<"M", "u", "s", "i", "c">>
      [] m = "Game" -> <<"G", "a", "m", "e">>
      [] m = "Direct" -> <<"D", "i", "r", "e", "c", "t">>
      [] m = "PureDirect" -> <<"P", "u", "r", "e", " ", "D", "i", "r", "e", "c", "t">>
      [] m = "Stereo" -> <<"S", "t", "e", "r", "e", "o">>
      [] m = "Auto" -> <<"A", "u", "t", "o">>
      [] m = "DolbyDigital" -> <<"D", "o", "l", "b", "y", " ", "D", "i", "g", "i", "t", "a", "l">>
      [] m = "DtsSurround" -> <<"D", "T", "S", " ", "S", "u", "r", "r", "o", "u", "n", "d">>
      [] m = "MultiChStereo" -> <<"M", "u", "l", "t", "i", " ", "C", "h", " ", "S", "t", "e", "r", "e", "o">>
      [] m = "RockArena" -> <<"R", "o", "c", "k", " ", "A", "r", "e", "n", "a">>
      [] m = "JazzClub" -> <<"J", "a", "z", "z", " ", "C", "l", "u", "b">>
      [] m = "MonoMovie" -> <<"M", "o", "n", "o", " ", "M", "o", "v", "i", "e">>
      [] m = "Matrix" -> <<"M", "a", "t", "r", "i", "x">>
      [] m = "VideoGame" -> <<"V", "i", "d", "e", "o", " ", "G", "a", "m", "e">>
      [] m = "Virtual" -> <<"V", "i", "r", "t", "u", "a", "l">>

\* SurroundMode::from_response: the string is trimmed and upper-cased, then
\* matched against the response names.
SurroundMode_from_response(s) ==
    LET lower == <<"a", "b", "c", "d", "e", "f", "g", "h", "i", "j", "k", "l", "m">>
                 \o <<"n", "o", "p", "q", "r", "s", "t", "u", "v", "w", "x", "y", "z">>
        upper == <<"A", "B", "C", "D", "E", "F", "G", "H", "I", "J", "K", "L", "M">>
                 \o <<"N", "O", "P", "Q", "R", "S", "T", "U", "V", "W", "X", "Y", "Z">>
        white == {" ", "\t", "\n", "\r"}
        first == IF \E i \in 1..Len(s) : s[i] \notin white
                 THEN CHOOSE i \in 1..Len(s) :
                        s[i] \notin white /\ \A j \in 1..(i - 1) : s[j] \in white
                 ELSE Len(s) + 1
        last  == IF \E i \in 1..Len(s) : s[i] \notin white
                 THEN CHOOSE i \in 1..Len(s) :
                        s[i] \notin white /\ \A j \in (i + 1)..Len(s) : s[j] \in white
                 ELSE Len(s)
        trim  == SubSeq(s, first, last)
        up(c) == IF \E i \in 1..26 : lower[i] = c
                 THEN upper[CHOOSE i \in 1..26 : lower[i] = c] ELSE c
        t     == [i \in 1..Len(trim) |-> up(trim[i])]
    IN  CASE t = <<"M", "O", "V", "I", "E">> -> Some("Movie")
          [] t = <<"M", "U", "S", "I", "C">> -> Some("Music")
          [] t = <<"G", "A", "M", "E">> -> Some("Game")
          [] t = <<"D", "I", "R", "E", "C", "T">> -> Some("Direct")
          [] t = <<"P", "U", "R", "E", " ", "D", "I", "R", "E", "C", "T">> -> Some("PureDirect")
          [] t = <<"S", "T", "E", "R", "E", "O">> -> Some("Stereo")
          [] t = <<"A", "U", "T", "O">> -> Some("Auto")
          [] t = <<"D", "O", "L", "B", "Y", " ", "D", "I", "G", "I", "T", "A", "L">> -> Some("DolbyDigital")
          [] t = <<"D", "T", "S", " ", "S", "U", "R", "R", "O", "U", "N", "D">> -> Some("DtsSurround")
          [] t = <<"M", "C", "H", " ", "S", "T", "E", "R", "E", "O">> -> Some("MultiChStereo")
          [] t = <<"R", "O", "C", "K", " ", "A", "R", "E", "N", "A">> -> Some("RockArena")
          [] t = <<"J", "A", "Z", "Z", " ", "C", "L", "U", "B">> -> Some("JazzClub")
          [] t = <<"M", "O", "N", "O", " ", "M", "O", "V", "I", "E">> -> Some("MonoMovie")
          [] t = <<"M", "A", "T", "R", "I", "X">> -> Some("Matrix")
          [] t = <<"V", "I", "D", "E", "O", " ", "G", "A", "M", "E">> -> Some("VideoGame")
          [] t = <<"V", "I", "R", "T", "U", "A", "L">> -> Some("Virtual")
          [] OTHER -> None

\* AvrHandle::send_raw: the string put on the command channel.
send_raw(cmd) == cmd \o <<"\r">>

\* A set_volume that does not clamp the level.
AvrHandle_set_volume_unclamped(level) ==
    send_raw(AvrStr.MV \o (IF level < 10 THEN <<"0">> ELSE <<>>) \o NatToStr(level))

\* AvrHandle::set_volume: "MV{:02}" of level.min(98).
AvrHandle_set_volume(level) ==
    LET l == IF level < 98 THEN level ELSE 98
    IN  send_raw(AvrStr.MV \o (IF l < 10 THEN <<"0">> ELSE <<>>) \o NatToStr(l))

\* AvrHandle::dialog_enhancer: "PSDIL OFF" for level 0, else "PSDIL {:02}" of
\* level.min(6).
AvrHandle_dialog_enhancer(level) ==
    LET l == IF level < 6 THEN level ELSE 6
    IN  IF l = 0 THEN send_raw(<<"P", "S", "D", "I", "L", " ", "O", "F", "F">>)
        ELSE send_raw(<<"P", "S", "D", "I", "L", " ">>
                      \o (IF l < 10 THEN <<"0">> ELSE <<>>) \o NatToStr(l))

\* The mutant of avr_mute_toggle that repeats the state it read.
avr_mute_toggle_same(a) ==
    [app |-> a,
     sent |-> IF a.avr_handle
              THEN <<send_raw(AvrStr.MU \o (IF a.avr_state.muted THEN AvrStr.ON ELSE AvrStr.OFF))>>
              ELSE <<>>]

\* App::avr_mute_toggle (&self): the App it leaves and what it submitted on
\* the receiver handle: mute_off (MUOFF) when the flag is set, mute_on (MUON)
\* otherwise, nothing without a handle.
avr_mute_toggle(a) ==
    [app |-> a,
     sent |-> IF a.avr_handle
              THEN <<send_raw(AvrStr.MU \o (IF a.avr_state.muted THEN AvrStr.OFF ELSE AvrStr.ON))>>
              ELSE <<>>]

\* The Ok(_) arm of the receiver's read loop: an empty line is skipped.
avr_read_arm(line) == IF line # <<>> THEN avr_handle_response(line) ELSE None

\* HeosClient::parse_response: a line is a JSON envelope or it is dropped.
parse_response(line) == IF line.json THEN Some(line.env) ELSE None

\* A read arm that reports an undecodable line as an error.
heos_read_arm_strict(line) ==
    IF IsSome(parse_response(line)) THEN Forwarded(Unwrap(parse_response(line)))
    ELSE Some([type |-> "Error", msg |-> Str.read_error])

\* The Ok(_) arm of the player's read loop.
heos_read_arm(line) ==
    IF IsSome(parse_response(line)) THEN Forwarded(Unwrap(parse_response(line))) ELSE None

\* Lines a player device sends: one that is no envelope, an event the client
\* knows, an event it ignores, and a response.
HeosLines ==
    { [json |-> FALSE, env |-> NullPayload],
      [json |-> TRUE,
       env |-> HeosResponse(Str.ev_player_volume_changed, None,
                            Amp(PidKV(1), KV(Str.level, IntToStr(37))), NullPayload)],
      [json |-> TRUE, env |-> HeosResponse(Str.ev_groups_changed, None, <<>>, NullPayload)],
      [json |-> TRUE,
       env |-> HeosResponse(Str.player \o Str.get_volume, Some(Str.success),
                            Amp(PidKV(1), KV(Str.level, IntToStr(37))), NullPayload)] }

\* Lines a receiver sends, trimmed: a volume report, a mute report the client
\* cannot read, and an empty line.
AvrLines ==
    { AvrStr.MV \o IntToStr(45), AvrStr.MU \o <<"X", "X">>, <<>> }

Lines(k) == IF k = "heos" THEN HeosLines ELSE AvrLines
Decode(k, line) == IF k = "heos" THEN heos_read_arm(line) ELSE avr_read_arm(line)

-----------------------------------------------------------------------------
(* The channels of a session *)

\* The mutant of cmd_tx_send that rejects a command when the queue is full.
cmd_tx_send_try(q, cmd, closed, ahead) ==
    IF closed \/ Len(q) >= CmdCap \/ ahead
    THEN [res |-> "err", q |-> q]
    ELSE [res |-> "ok", q |-> Append(q, cmd)]

\* The mutant of cmd_tx_send that never looks at the receiver.
cmd_tx_send_blind(q, cmd, closed, ahead) ==
    IF Len(q) < CmdCap /\ ~ahead
    THEN [res |-> "ok", q |-> Append(q, cmd)]
    ELSE [res |-> "wait", q |-> q]

\* HeosHandle::send, AvrHandle::send_raw: mpsc::Sender::send on the command
\* channel.  It fails when the receiver is gone, places the command when a
\* slot is free and no earlier send is waiting for one, and otherwise suspends
\* the caller ("wait").
cmd_tx_send(q, cmd, closed, ahead) ==
    IF closed THEN [res |-> "err", q |-> q]
    ELSE IF Len(q) < CmdCap /\ ~ahead THEN [res |-> "ok", q |-> Append(q, cmd)]
    ELSE [res |-> "wait", q |-> q]

\* The mutant of event_rx_recv that takes the newest message.
event_rx_recv_last(q) == [item |-> q[Len(q)], rest |-> SubSeq(q, 1, Len(q) - 1)]

\* heos_rx.recv(), avr_rx.recv(): the oldest message of the event channel.
event_rx_recv(q) == [item |-> Head(q), rest |-> Tail(q)]

\* event_tx.send(event) once the channel has room.
event_tx_send(q, item) == Append(q, item)

NoItem == [id |-> 0, type |-> "none"]
Notice(t) == [id |-> 0, type |-> t]

\* The number the next submitted command gets.
NextCmd == Len(results) + Len(waiters) + 1

\* Commands the connection task submits once connected: register_for_events
\* and get_players (main.rs:88-89), the five queries of query_status
\* (avr.rs:335-341).
StartupLen(k) == IF k = "heos" THEN 2 ELSE 5

-----------------------------------------------------------------------------
(* A Connection Session, from the moment connect has spawned its two tasks *)

LoopAtRest ==
    /\ app = App_new
    /\ appH = App_new
    /\ appA = App_new
    /\ sent = <<>>
    /\ cmd_open = TRUE
    /\ heos_task = "running"
    /\ avr_task = "running"
    /\ steps = 0
    /\ loop = AtSelect

SessionInit ==
    /\ kind \in {"heos", "avr"}
    /\ reader = [pc |-> "read", lines |-> 0, item |-> NoItem]
    /\ evq = <<>>
    /\ applied = <<>>
    /\ disc = FALSE
    /\ write_half = TRUE
    /\ writer = [pc |-> "recv", cmd |-> 0, why |-> "none", out |-> <<>>]
    /\ cmdq = <<>>
    /\ waiters = <<>>
    /\ task = [pc |-> "connect", left |-> 0]
    /\ ctl = [handle |-> "none", pc |-> "select"]
    /\ results = <<>>
    /\ enq = <<>>
    /\ LoopAtRest
    /\ conn = ConnStart
    /\ calc = NoCalc
    /\ ssdp = [pc |-> "idle"]

\* ---- the read loop (client.rs:157-187, avr.rs:362-387) ----

\* read_line returns a line: it is decoded, and the event it yields, if any,
\* is the one to send.
ReadLine ==
    /\ reader.pc = "read"
    /\ reader.lines < MaxLines
    /\ \E line \in Lines(kind) :
         LET id == reader.lines + 1
             ev == Decode(kind, line)
         IN  reader' = IF IsSome(ev)
                       THEN [pc |-> "send", lines |-> id,
                             item |-> [id |-> id, type |-> Unwrap(ev).type]]
                       ELSE [pc |-> "read", lines |-> id, item |-> NoItem]
    /\ UNCHANGED <<kind, evq, applied, disc, write_half, writer, cmdq, waiters, task,
                   ctl, results, enq, loopvars, auxvars>>

\* read_line returns Ok(0): the peer has closed the connection.
ReadEof ==
    /\ reader.pc = "read"
    /\ reader' = [reader EXCEPT !.pc = "send", !.item = Notice("Disconnected")]
    /\ UNCHANGED <<kind, evq, applied, disc, write_half, writer, cmdq, waiters, task,
                   ctl, results, enq, loopvars, auxvars>>

\* read_line returns an error.
ReadError ==
    /\ reader.pc = "read"
    /\ reader' = [reader EXCEPT !.pc = "send", !.item = Notice("Error")]
    /\ UNCHANGED <<kind, evq, applied, disc, write_half, writer, cmdq, waiters, task,
                   ctl, results, enq, loopvars, auxvars>>

\* event_tx.send(..).await completes once the event channel has room.  After
\* Disconnected or Error the loop is left; the player's reader then clears
\* the write half, the receiver's reader ends.
ReaderSend ==
    /\ reader.pc = "send"
    /\ Len(evq) < EvCap
    /\ evq' = event_tx_send(evq, reader.item)
    /\ disc' = (disc \/ reader.item.type = "Disconnected")
    /\ reader' = [reader EXCEPT
                    !.pc = IF reader.item.type \in {"Disconnected", "Error"}
                           THEN IF kind = "heos" THEN "clear" ELSE "done"
                           ELSE "read",
                    !.item = NoItem]
    /\ UNCHANGED <<kind, applied, write_half, writer, cmdq, waiters, task, ctl, results,
                   enq, loopvars, auxvars>>

\* *write_half.lock().await = None (client.rs:186): waits while the writer
\* holds the guard.
ReaderClear ==
    /\ reader.pc = "clear"
    /\ writer.pc \notin {"write", "flush"}
    /\ write_half' = FALSE
    /\ reader' = [reader EXCEPT !.pc = "done"]
    /\ UNCHANGED <<kind, evq, applied, disc, writer, cmdq, waiters, task, ctl, results,
                   enq, loopvars, auxvars>>

\* ---- the write loop (client.rs:191-206, avr.rs:391-405) ----

\* The mutant of write_all that puts the bytes in front of what was written.
write_all_front(out, cmd, part) == <<[cmd |-> cmd, part |-> part]>> \o out

\* writer.write_all(bytes): the bytes of a command, all or (on an error) only
\* some of them, follow what the socket already got.
write_all(out, cmd, part) == Append(out, [cmd |-> cmd, part |-> part])

WriterEnds(why) == [pc |-> "done", cmd |-> 0, why |-> why, out |-> writer.out]

\* cmd_rx.recv() yields a command and the guard is taken: the command goes to
\* the socket if the write half is there, else the loop is left.  Leaving
\* drops the receiver and with it what is still queued.
WriterRecv ==
    /\ writer.pc = "recv"
    /\ cmdq # <<>>
    /\ IF write_half
       THEN /\ writer' = [pc |-> "write", cmd |-> Head(cmdq), why |-> "none",
                             out |-> writer.out]
            /\ cmdq' = Tail(cmdq)
       ELSE /\ writer' = WriterEnds("no_socket")
            /\ cmdq' = <<>>
    /\ UNCHANGED <<kind, reader, evq, applied, disc, write_half, waiters, task, ctl,
                   results, enq, loopvars, auxvars>>

\* write_all completes: every byte of the command is on the socket, or an
\* error came after none or some of them.
WriterWrite ==
    /\ writer.pc = "write"
    /\ \E res \in {"ok", "err", "err_part"} :
         IF res = "ok"
         THEN /\ writer' = [writer EXCEPT !.pc = "flush",
                                          !.out = write_all(@, writer.cmd, FALSE)]
              /\ cmdq' = cmdq
         ELSE /\ writer' = [WriterEnds("write_error") EXCEPT
                              !.out = IF res = "err_part"
                                      THEN write_all(@, writer.cmd, TRUE) ELSE @]
              /\ cmdq' = <<>>
    /\ UNCHANGED <<kind, reader, evq, applied, disc, write_half, waiters, task, ctl,
                   results, enq, loopvars, auxvars>>

\* flush completes, with or without an error; the guard is released.
WriterFlush ==
    /\ writer.pc = "flush"
    /\ \E ok \in BOOLEAN :
         IF ok
         THEN writer' = [pc |-> "recv", cmd |-> 0, why |-> "none", out |-> writer.out]
              /\ cmdq' = cmdq
         ELSE writer' = WriterEnds("write_error") /\ cmdq' = <<>>
    /\ UNCHANGED <<kind, reader, evq, applied, disc, write_half, waiters, task, ctl,
                   results, enq, loopvars, auxvars>>

\* The mutant of WriterClosed that leaves as soon as every handle is dropped,
\* whatever is still queued.
WriterClosed_early ==
    /\ writer.pc = "recv"
    /\ waiters = <<>>
    /\ task.pc = "done"
    /\ ctl.handle = "dropped"
    /\ writer' = WriterEnds("closed")
    /\ cmdq' = <<>>
    /\ UNCHANGED <<kind, reader, evq, applied, disc, write_half, waiters, task,
                   ctl, results, enq, loopvars, auxvars>>

\* cmd_rx.recv() yields None: every handle has been dropped and the queue is
\* empty.
WriterClosed ==
    /\ writer.pc = "recv"
    /\ cmdq = <<>>
    /\ waiters = <<>>
    /\ task.pc = "done"
    /\ ctl.handle = "dropped"
    /\ writer' = WriterEnds("closed")
    /\ UNCHANGED <<kind, reader, evq, applied, disc, write_half, cmdq, waiters, task,
                   ctl, results, enq, loopvars, auxvars>>

\* ---- the callers of send: the connection task and the control loop ----

\* What a send call that has returned leaves in the log: its result, whether
\* the write loop was alive when it returned, and what had happened before
\* the call was made.
Returned(cmd, caller, res, after_disc, after_werr) ==
    [cmd |-> cmd, caller |-> caller, res |-> res, live |-> writer.pc # "done",
     after_disc |-> after_disc, after_werr |-> after_werr]

\* The caller `c` calls send: the call returns at once or the caller is
\* suspended on the full channel.
Call(c) ==
    LET r == cmd_tx_send(cmdq, NextCmd, writer.pc = "done", waiters # <<>>)
    IN  /\ NextCmd <= MaxCmds
        /\ cmdq' = r.q
        /\ IF r.res = "wait"
           THEN /\ waiters' = Append(waiters,
                                     [cmd |-> NextCmd, caller |-> c, after_disc |-> disc,
                                      after_werr |-> writer.why = "write_error"])
                /\ UNCHANGED <<results, enq>>
           ELSE /\ results' = Append(results,
                                     Returned(NextCmd, c, r.res, disc,
                                              writer.why = "write_error"))
                /\ enq' = IF r.res = "ok" THEN Append(enq, NextCmd) ELSE enq
                /\ UNCHANGED waiters

\* The connection task after a send that returned res: the player's task
\* ignores the result, the receiver's query_status stops at the first error.
TaskAfter(res) ==
    LET left == IF kind = "avr" /\ res = "err" THEN 0 ELSE task.left - 1
    IN  [pc |-> IF left = 0 THEN "done" ELSE "startup", left |-> left]

\* connect sends Connected (client.rs:208, avr.rs:407) and returns the handle.
TaskConnected ==
    /\ task.pc = "connect"
    /\ Len(evq) < EvCap
    /\ evq' = event_tx_send(evq, Notice("Connected"))
    /\ task' = [pc |-> "deliver", left |-> StartupLen(kind)]
    /\ UNCHANGED <<kind, reader, applied, disc, write_half, writer, cmdq, waiters, ctl,
                   results, enq, loopvars, auxvars>>

\* handle_tx.send(handle.clone()) (main.rs:86, 124)
TaskDeliver ==
    /\ task.pc = "deliver"
    /\ task' = [task EXCEPT !.pc = "startup"]
    /\ ctl' = [ctl EXCEPT !.handle = "sent"]
    /\ UNCHANGED <<kind, reader, evq, applied, disc, write_half, writer, cmdq, waiters,
                   results, enq, loopvars, auxvars>>

\* The task submits its next startup command (main.rs:88-89, 127).
TaskSubmit ==
    /\ task.pc = "startup"
    /\ Call("task")
    /\ task' = IF waiters' # waiters THEN [task EXCEPT !.pc = "in_send"]
               ELSE TaskAfter(results'[Len(results')].res)
    /\ UNCHANGED <<kind, reader, evq, applied, disc, write_half, writer, ctl, loopvars, auxvars>>

\* handle_rx.recv() (main.rs:182-189): the control loop now holds the handle.
CtlRecvHandle ==
    /\ ctl = [handle |-> "sent", pc |-> "select"]
    /\ ctl' = [ctl EXCEPT !.handle = "held"]
    /\ UNCHANGED <<kind, reader, evq, applied, disc, write_half, writer, cmdq, waiters,
                   task, results, enq, loopvars, auxvars>>

\* A key action submits a command on the handle the App holds (main.rs:146-153).
CtlSubmit ==
    /\ ctl = [handle |-> "held", pc |-> "select"]
    /\ Call("ctl")
    /\ ctl' = IF waiters' # waiters THEN [ctl EXCEPT !.pc = "in_send"] ELSE ctl
    /\ UNCHANGED <<kind, reader, evq, applied, disc, write_half, writer, task, loopvars, auxvars>>

\* heos_rx.recv() / avr_rx.recv() (main.rs:161, 179): the control loop takes
\* the next message of the session and applies it; Disconnected makes the App
\* drop its handle (app.rs:422, 471).
CtlRecvEvent ==
    /\ ctl.pc = "select"
    /\ evq # <<>>
    /\ LET r == event_rx_recv(evq)
       IN  /\ evq' = r.rest
           /\ applied' = IF r.item.id > 0 THEN Append(applied, r.item.id) ELSE applied
           /\ ctl' = IF r.item.type = "Disconnected" /\ ctl.handle = "held"
                     THEN [ctl EXCEPT !.handle = "dropped"]
                     ELSE ctl
    /\ UNCHANGED <<kind, reader, disc, write_half, writer, cmdq, waiters, task, results,
                   enq, loopvars, auxvars>>

\* The oldest suspended send goes on: a slot is free, or the receiver is gone.
Resume ==
    /\ waiters # <<>>
    /\ LET w == Head(waiters)
           r == cmd_tx_send(cmdq, w.cmd, writer.pc = "done", FALSE)
       IN  /\ r.res # "wait"
           /\ cmdq' = r.q
           /\ waiters' = Tail(waiters)
           /\ results' = Append(results,
                                Returned(w.cmd, w.caller, r.res, w.after_disc, w.after_werr))
           /\ enq' = IF r.res = "ok" THEN Append(enq, w.cmd) ELSE enq
           /\ IF w.caller = "task"
              THEN task' = TaskAfter(r.res) /\ ctl' = ctl
              ELSE ctl' = [ctl EXCEPT !.pc = "select"] /\ task' = task
    /\ UNCHANGED <<kind, reader, evq, applied, disc, write_half, writer, loopvars, auxvars>>

SessionNext ==
    \/ ReadLine
    \/ ReadEof
    \/ ReadError
    \/ ReaderSend
    \/ ReaderClear
    \/ WriterRecv
    \/ WriterWrite
    \/ WriterFlush
    \/ WriterClosed
    \/ TaskConnected
    \/ TaskDeliver
    \/ TaskSubmit
    \/ CtlRecvHandle
    \/ CtlSubmit
    \/ CtlRecvEvent
    \/ Resume

SessionSpec == SessionInit /\ [][SessionNext]_vars

-----------------------------------------------------------------------------
(* Properties of the control loop and the Reconciler *)

\* The pid of the active player: the roster entry at the active index.
ActivePid(a) ==
    IF a.current_player_idx < Len(a.players)
    THEN Some(a.players[a.current_player_idx + 1].pid)
    ELSE None

\* The iteration just taken ran the branch of a message of kind op.
Ran(op) == loop.pc = "select" /\ loop'.pc = "done" /\ loop'.input.op = op
Done(op) == loop.pc = "done" /\ loop.input.op = op

PidEventTypes ==
    {"PlayerStateChanged", "NowPlayingChanged", "VolumeChanged", "PlayModeChanged",
     "QueueChanged"}

\* C1: a player event that carries a pid other than the active player's, or
\* that arrives while no player is active, leaves the whole App unchanged.
C1_OtherPidEventIsNoOp ==
    [][ ( /\ Ran("heos_event")
          /\ loop'.input.ev.type \in PidEventTypes
          /\ ActivePid(app) # Some(loop'.input.ev.pid) )
        => app' = app ]_vars

\* An event for player 1 was reconciled while another player is active, and
\* its level is not the one shown.
C1_Witness ==
    /\ Done("heos_event")
    /\ loop.input.ev.type = "VolumeChanged"
    /\ IsSome(ActivePid(app))
    /\ ActivePid(app) # Some(loop.input.ev.pid)
    /\ app.player_state.volume # loop.input.ev.level

\* The pid a response's message names, if it names one.
NamedPid(response) ==
    LET s == MapGet(parse_message_string(response.message), Str.pid)
    IN  IF IsSome(s) THEN ParseI64(Unwrap(s)) ELSE None

\* C2 (as claimed): a successful response whose message names a pid other than
\* the active player's leaves Unified Player State unchanged.
C2_OtherPidResponseKeepsPlayerState ==
    [][ ( /\ Ran("heos_event")
          /\ loop'.input.ev.type = "Response"
          /\ loop'.input.ev.response.result = Some(Str.success)
          /\ IsSome(ActivePid(app))
          /\ IsSome(NamedPid(loop'.input.ev.response))
          /\ NamedPid(loop'.input.ev.response) # ActivePid(app) )
        => app'.player_state = app.player_state ]_vars

\* C3: a response whose result flag is present and is not "success" changes
\* nothing but the status message.
C3_FailedResponseOnlyStatus ==
    [][ ( /\ Ran("heos_event")
          /\ loop'.input.ev.type = "Response"
          /\ loop'.input.ev.response.result # None
          /\ loop'.input.ev.response.result # Some(Str.success) )
        => [app' EXCEPT !.status_message = app.status_message] = app ]_vars

\* A failed get_volume response carrying a level other than the one shown was
\* reconciled, and its text is the status message.
C3_Witness ==
    /\ Done("heos_event")
    /\ loop.input.ev.type = "Response"
    /\ loop.input.ev.response.result = Some(Str.fail)
    /\ loop.input.ev.response.command = Str.player \o Str.get_volume
    /\ MapGet(parse_message_string(loop.input.ev.response.message), Str.level)
           = Some(IntToStr(37))
    /\ app.player_state.volume # 37
    /\ app.status_message = Some(Str.error \o Str.not_valid)

\* C4: select_player(idx) with idx inside the roster makes idx the active
\* index, records roster[idx] as the selected player, resets the other fields
\* of Unified Player State to their defaults and keeps the roster; with idx
\* outside the roster it changes nothing and submits nothing.
C4_SelectPlayer ==
    [][ Ran("select") =>
          LET idx == loop'.input.idx
          IN  IF idx < Len(app.players)
              THEN /\ app'.current_player_idx = idx
                   /\ app'.player_state.player = Some(app.players[idx + 1])
                   /\ app'.player_state.now_playing = [song |-> "", station |-> ""]
                   /\ app'.player_state.play_state = "Unknown"
                   /\ app'.player_state.volume = 0
                   /\ app'.player_state.mute = "Off"
                   /\ app'.player_state.repeat = "Off"
                   /\ app'.player_state.shuffle = "Off"
                   /\ app'.players = app.players
              ELSE app' = app /\ sent' = <<>> ]_vars

\* The second roster entry was selected with a handle held: it is the active
\* player and its five queries were submitted.
C4_Witness ==
    /\ Done("select")
    /\ loop.input.idx = 1
    /\ Len(app.players) = 2
    /\ app.current_player_idx = 1
    /\ app.player_state.player = Some(app.players[2])
    /\ Len(sent) = 5

\* The parts of the App each session's events are reconciled into.
PlayerPart(a) == <<a.player_state, a.players, a.current_player_idx>>
AvrPart(a) == a.avr_state

\* C6: whatever the interleaving, Unified Player State with the roster and the
\* active index is what the player-side steps alone produce, and Unified
\* Receiver State is what the receiver-side steps alone produce.
C6_InterleavingIndependent ==
    /\ PlayerPart(app) = PlayerPart(appH)
    /\ AvrPart(app) = AvrPart(appA)

\* Both sessions' events were reconciled, and the status message is one that
\* neither side alone would have left.
C6_Witness ==
    /\ app.player_state.volume = 37
    /\ app.avr_state.master_volume = 45
    /\ app.avr_state.connected
    /\ app.status_message # appH.status_message

-----------------------------------------------------------------------------
(* Properties of a Connection Session *)

\* How often the command c was placed on the command channel.
TimesQueued(c) == Cardinality({ j \in DOMAIN enq : enq[j] = c })

\* C5: the control loop applies the events of a session's lines in the order
\* the lines arrived on the socket: the ids of the applied lines, numbered by
\* arrival, strictly increase, so none is applied before an earlier one and
\* none is applied twice.
C5_AppliedInArrivalOrder ==
    /\ \A i, j \in DOMAIN applied : i < j => applied[i] < applied[j]
    /\ \A i \in DOMAIN applied : applied[i] <= reader.lines

\* Two lines that both yielded an event have been applied.
C5_Witness == applied = <<1, 2>>

\* C7 (as claimed): a send called after the reader has seen the zero-length
\* read and emitted Disconnected returns failure at once and its command is
\* never placed on the command channel.
C7_SubmitAfterDisconnectedFails ==
    /\ \A i \in DOMAIN results :
         results[i].after_disc =>
           results[i].res = "err" /\ TimesQueued(results[i].cmd) = 0
    /\ \A i \in DOMAIN waiters : ~waiters[i].after_disc

\* C8: a send returns failure exactly when the write loop has ended; one that
\* returns ok has placed its command on the command channel once, one that
\* fails has not placed it.
C8_SubmitFailsIffWriterEnded ==
    \A i \in DOMAIN results :
      /\ results[i].res = "err" <=> ~results[i].live
      /\ TimesQueued(results[i].cmd) = IF results[i].res = "ok" THEN 1 ELSE 0

\* One send returned ok while the write loop was alive and a later one failed
\* after it had ended.
C8_Witness ==
    \E i, j \in DOMAIN results :
      /\ i < j
      /\ results[i].res = "ok" /\ results[i].live
      /\ results[j].res = "err" /\ ~results[j].live

\* C9 (as claimed): a send called after a socket write error has ended the
\* write loop still returns ok.
C9_SubmitAfterWriteErrorOk ==
    \A i \in DOMAIN results : results[i].after_werr => results[i].res = "ok"

\* C9 (amended): a send called after a socket write error has ended the write
\* loop returns failure at once and its command is not placed on the command
\* channel.
C9_SubmitAfterWriteErrorFails ==
    /\ \A i \in DOMAIN results :
         results[i].after_werr =>
           results[i].res = "err" /\ TimesQueued(results[i].cmd) = 0
    /\ \A i \in DOMAIN waiters : ~waiters[i].after_werr

\* A send was called after a write error had ended the write loop, and it has
\* returned.
C9_Witness ==
    /\ writer.why = "write_error"
    /\ \E i \in DOMAIN results : results[i].after_werr

\* C10 (as claimed): the control loop is never suspended inside a send.
C10_ControlLoopNeverSuspended == ctl.pc # "in_send"

\* C11 (as claimed): neither loop of a session waits on something the other
\* holds.  The read loop that is finishing can take its last step whatever the
\* write loop is doing, and the write loop can take a queued command, write
\* and flush whatever the read loop is doing.
C11_LoopsNeverWaitOnEachOther ==
    /\ reader.pc = "clear" => ENABLED ReaderClear
    /\ (writer.pc = "recv" /\ cmdq # <<>>) => ENABLED WriterRecv
    /\ writer.pc = "write" => ENABLED WriterWrite
    /\ writer.pc = "flush" => ENABLED WriterFlush

-----------------------------------------------------------------------------
(* A session under fair scheduling *)

\* Every task that can take a step eventually takes one, and so does the
\* control loop for the messages in its channels.  What the peer sends and
\* what the user does is under no such condition.
SessionFairness ==
    /\ WF_vars(ReaderSend)
    /\ WF_vars(ReaderClear)
    /\ WF_vars(WriterRecv)
    /\ WF_vars(WriterWrite)
    /\ WF_vars(WriterFlush)
    /\ WF_vars(WriterClosed)
    /\ WF_vars(TaskConnected)
    /\ WF_vars(TaskDeliver)
    /\ WF_vars(TaskSubmit)
    /\ WF_vars(CtlRecvHandle)
    /\ WF_vars(CtlRecvEvent)
    /\ WF_vars(Resume)

SessionLiveSpec == SessionInit /\ [][SessionNext]_vars /\ SessionFairness

\* C12 (as claimed), for the runs in which the connection task has finished
\* its startup commands: once the read loop has ended after a zero-length read
\* or a read error, the write loop of the session eventually ends too.
C12_FailedSessionEnds ==
    (reader.pc = "done" /\ task.pc = "done") ~> (writer.pc = "done")

-----------------------------------------------------------------------------
(* main.rs: the two connection tasks and the handles they deliver *)

ConnKinds == {"heos", "avr"}

\* A connection task that starts over when its startup commands are sent.
TaskEndRetry == "connect"

\* Where a connection task is once its startup commands are sent: at the end
\* of its async block (main.rs:90, 128).
TaskEnd == "done"

\* The host is given or discovered, or no device is found (main.rs:71-79,
\* 111-119).
ConnDiscover ==
    /\ \E k \in ConnKinds, found \in BOOLEAN :
         /\ conn[k].pc = "start"
         /\ conn' = [conn EXCEPT ![k].pc = IF found THEN "connect" ELSE "failed"]
    /\ UNCHANGED <<calc, ssdp, loopvars, sessvars>>

\* HeosClient::connect / AvrClient::connect (main.rs:82, 122): a session with
\* its two tasks is made, or the connection attempt fails.
ConnConnect ==
    /\ \E k \in ConnKinds, ok \in BOOLEAN :
         /\ conn[k].pc = "connect"
         /\ conn[k].made < MaxSessions
         /\ conn' = IF ok
                    THEN [conn EXCEPT ![k].pc = "deliver",
                                      ![k].made = @ + 1,
                                      ![k].live = @ \cup {conn[k].made + 1}]
                    ELSE [conn EXCEPT ![k].pc = "failed"]
    /\ UNCHANGED <<calc, ssdp, loopvars, sessvars>>

\* handle_tx.send(handle.clone()) (main.rs:85, 125)
ConnDeliver ==
    /\ \E k \in ConnKinds :
         /\ conn[k].pc = "deliver"
         /\ conn' = [conn EXCEPT ![k].pc = "startup",
                                 ![k].chan = Append(@, conn[k].made)]
    /\ UNCHANGED <<calc, ssdp, loopvars, sessvars>>

\* The startup commands are submitted (main.rs:88-89, 127).
ConnStartup ==
    /\ \E k \in ConnKinds :
         /\ conn[k].pc = "startup"
         /\ conn' = [conn EXCEPT ![k].pc = TaskEnd]
    /\ UNCHANGED <<calc, ssdp, loopvars, sessvars>>

\* handle_rx.recv() / avr_handle_rx.recv() and set_handle / set_avr_handle
\* (main.rs:182-191, app.rs:113-125)
ConnRecvHandle ==
    /\ \E k \in ConnKinds :
         /\ conn[k].chan # <<>>
         /\ conn' = [conn EXCEPT ![k].held = Head(conn[k].chan),
                                 ![k].chan = Tail(@)]
    /\ UNCHANGED <<calc, ssdp, loopvars, sessvars>>

\* The tasks of a session end (client.rs:157-206, avr.rs:362-405).
ConnSessionEnds ==
    /\ \E k \in ConnKinds, id \in 1..MaxSessions :
         /\ id \in conn[k].live
         /\ conn' = [conn EXCEPT ![k].live = @ \ {id}]
    /\ UNCHANGED <<calc, ssdp, loopvars, sessvars>>

\* The Disconnected notification of an ended session is reconciled: the App
\* drops the handle it holds (app.rs:422, 471).
ConnDropHandle ==
    /\ \E k \in ConnKinds :
         /\ conn[k].held # 0
         /\ Cardinality(conn[k].live) < conn[k].made
         /\ conn' = [conn EXCEPT ![k].held = 0]
    /\ UNCHANGED <<calc, ssdp, loopvars, sessvars>>

ConnInit ==
    /\ conn = ConnStart /\ calc = NoCalc /\ ssdp = [pc |-> "idle"]
    /\ LoopAtRest /\ SessionAtRest

ConnNext ==
    \/ ConnDiscover
    \/ ConnConnect
    \/ ConnDeliver
    \/ ConnStartup
    \/ ConnRecvHandle
    \/ ConnSessionEnds
    \/ ConnDropHandle

ConnSpec == ConnInit /\ [][ConnNext]_vars

\* C13: for each device kind at most one session is alive, and a handle the
\* App holds is a handle of the one session made for that kind.
C13_AtMostOneSession ==
    \A k \in ConnKinds :
      /\ Cardinality(conn[k].live) <= 1
      /\ conn[k].held # 0 => conn[k].held \in 1..conn[k].made /\ conn[k].live \subseteq {conn[k].held}

\* Both sessions are alive and the App holds the handle of each.
C13_Witness ==
    \A k \in ConnKinds : conn[k].live = {1} /\ conn[k].held = 1 /\ conn[k].pc = "done"

-----------------------------------------------------------------------------
(* Further properties of the control loop and the Reconciler *)

\* C14 (as claimed): a step of the control loop that is neither a Reconciler
\* step nor select_player, here the receipt of a handle, leaves Unified Player
\* State and Unified Receiver State (its connected flag included) unchanged.
C14_OnlyReconcilerChangesDeviceState ==
    [][ (Ran("handle") \/ Ran("avr_handle"))
        => app'.player_state = app.player_state /\ app'.avr_state = app.avr_state ]_vars

-----------------------------------------------------------------------------
\* The decoders and the encoder applied to drawn inputs.  Each action draws
\* one input, applies the code's functions to it and records the outcome in
\* calc; the variables of the other specifications stay at rest.

\* The drawn inputs.  "volume": an App with a roster of MaxPid players, one of
\* them active, volume 5, and the parts of one message string.  "avr": an App
\* with a default or a filled receiver state and one trimmed receiver line: the
\* volume prefix with every suffix of at most MaxSuffix characters, the other
\* four prefixes with known and unknown words, and lines of no known prefix.
\* "encode": a command with at most MaxParams parameters in every order.
\* "envelope": a decoded envelope without a result flag, with "success", or
\* with another result flag (an empty one and near-misses of "success" too).
\* "surround": one of the 16 surround modes, or a text that is a response name
\* in another case or with blanks around it, or no response name at all.
\* "level": a u8 level for the receiver's set_volume and dialog_enhancer.
\* "construct": a command constructor, a pid and a string argument of at most
\* MaxArg characters, the separators '&' and '=' among them.
CalcInputs ==
    LET CalcApp(p, mute) ==
            [App_new EXCEPT
               !.players = [i \in 1..MaxPid |-> Player(i)],
               !.current_player_idx = p - 1,
               !.player_state = [PlayerState_default EXCEPT
                                   !.player = Some(Player(p)), !.volume = 5,
                                   !.mute = mute]]
        VolumeInputs ==
            { [op |-> "volume", done |-> FALSE, app |-> CalcApp(active, mute),
               pid |-> p, level |-> level, with_mute |-> with_mute] :
                active \in Pids, mute \in {"Off", "On"}, p \in Pids,
                level \in 0..MaxLevel, with_mute \in BOOLEAN }
        AvrApps ==
            { App_new,
              set_avr_handle(App_new),
              [set_avr_handle(App_new) EXCEPT !.avr_state.muted = TRUE],
              [App_new EXCEPT
                 !.status_message = Some(Str.avr_connected),
                 !.avr_state = [connected |-> TRUE, power |-> TRUE, master_volume |-> 30,
                                muted |-> TRUE, surround_mode |-> Str.STEREO,
                                input_source |-> Str.TV]] }
        Suffixes == UNION { [1..n -> {"0", "1", "4", "5", "+", "A", "U+00E9"}] :
                              n \in 0..MaxSuffix }
        Words == { <<>>, AvrStr.ON, AvrStr.OFF, AvrStr.STANDBY, Str.on, Str.TV,
                   Str.STEREO, <<"O", "N", "N">> }
        ReceiverLines ==
            { AvrStr.MV \o x : x \in Suffixes }
            \cup { pre \o w : pre \in {AvrStr.MU, AvrStr.PW, AvrStr.SI, AvrStr.MS}, w \in Words }
            \cup { AvrStr.MVMAX, AvrStr.MVMAX \o <<" ", "8", "0">>, <<"M">>,
                   <<"Z", "2", "O", "N">>, <<"E", "R", "R">>, <<"P", "S">>, <<>> }
        AvrInputs ==
            { [op |-> "avr", done |-> FALSE, app |-> a, line |-> l] :
                a \in AvrApps, l \in ReceiverLines }
        Pairs == { <<Str.pid, IntToStr(1)>>, <<Str.state, Str.play>>,
                   <<Str.level, IntToStr(37)>> }
        EncodeInputs ==
            { [op |-> "encode", done |-> FALSE, cmd |-> HeosCommand(g, c, ps)] :
                g \in {Str.group_player, Str.group_system},
                c \in {Str.get_players, Str.set_play_state},
                ps \in UNION { [1..n -> Pairs] : n \in 0..MaxParams } }
            \cup { [op |-> "encode", done |-> FALSE, cmd |-> get_volume(pid)] :
                     pid \in Pids }
        Args == UNION { [1..n -> {"a", "&", "="}] : n \in 0..MaxArg }
        ConstructInputs ==
            { [op |-> "construct", done |-> FALSE, ctor |-> c, pid |-> pid, arg |-> x] :
                c \in {"set_play_state", "browse_source_container", "play_station",
                       "play_input"},
                pid \in Pids, x \in Args \cup {Str.play} }
        OddResults == { <<>>, <<"S", "u", "c", "c", "e", "s", "s">>,
                        Str.success \o <<" ">>, Str.fail, Str.error }
        EnvelopeInputs ==
            { [op |-> "envelope", done |-> FALSE, env |-> e] :
                e \in Envelopes
                      \cup { [r EXCEPT !.result = Some(x)] :
                               r \in EventEnvelopes, x \in OddResults } }
        SurroundInputs ==
            { [op |-> "surround", done |-> FALSE, mode |-> SurroundMode_all[i],
               text |-> <<>>] : i \in DOMAIN SurroundMode_all }
            \cup { [op |-> "surround", done |-> FALSE, mode |-> "none", text |-> x] :
                     x \in { <<" ", "s", "t", "e", "r", "e", "o", " ">>,
                             <<"S", "t", "e", "r", "e", "o">>,
                             <<"p", "u", "r", "e", " ", "d", "i", "r", "e", "c", "t">>,
                             <<"D", "o", "l", "b", "y", " ", "D", "i", "g", "i", "t", "a", "l", "\t">>,
                             <<>>, <<" ">>,
                             <<"M", "S", "S", "T", "E", "R", "E", "O">>,
                             <<"S", "T", "E", "R", "E", "O", " ", "X">>,
                             <<"P", "U", "R", "E", "D", "I", "R", "E", "C", "T">>,
                             <<"D", "O", "L", "B", "Y">>,
                             <<"M", "U", "L", "T", "I", " ", "C", "H", " ", "S", "T", "E", "R", "E", "O">>,
                             <<"M", "C", "H", " ", " ", "S", "T", "E", "R", "E", "O">> } }
        LevelInputs == { [op |-> "level", done |-> FALSE, level |-> l] : l \in 0..U8Max }
    IN  VolumeInputs \cup AvrInputs \cup EncodeInputs \cup ConstructInputs
          \cup LevelInputs
          \cup SurroundInputs
          \cup EnvelopeInputs

\* The message "pid=<pid>&level=<level>", optionally followed by "&mute=on",
\* carried once by a successful player/get_volume response and once by an
\* event/player_volume_changed event, both forwarded by
\* HeosClient::handle_event and applied by App::handle_heos_event to the same
\* starting App.
CalcVolume ==
    /\ calc.op = "volume" /\ ~calc.done
    /\ LET base == Amp(PidKV(calc.pid), KV(Str.level, IntToStr(calc.level)))
           msg  == IF calc.with_mute THEN Amp(base, KV(Str.mute, Str.on)) ELSE base
           resp == HeosResponse(Str.player \o Str.get_volume, Some(Str.success), msg,
                                NullPayload)
           ev   == HeosResponse(Str.ev_player_volume_changed, None, msg, NullPayload)
       IN  calc' = [op |-> "volume", done |-> TRUE, app |-> calc.app, pid |-> calc.pid,
                    level |-> calc.level, with_mute |-> calc.with_mute,
                    by_response |-> handle_heos_event(calc.app, Unwrap(Forwarded(resp))),
                    by_event |-> handle_heos_event(calc.app, Unwrap(Forwarded(ev)))]
    /\ UNCHANGED <<conn, ssdp, loopvars, sessvars>>

\* One trimmed receiver line through the Ok(_) arm of the receiver's read loop
\* and, when it yields an event, through App::handle_avr_event; then
\* App::avr_mute_toggle on the reconciled App.
CalcAvrLine ==
    /\ calc.op = "avr" /\ ~calc.done
    /\ LET panic == calc.line # <<>> /\ handle_response_panics(calc.line)
           ev  == IF panic THEN None ELSE avr_read_arm(calc.line)
           out == IF IsSome(ev) THEN handle_avr_event(calc.app, Unwrap(ev)) ELSE calc.app
       IN  calc' = [op |-> "avr", done |-> TRUE, app |-> calc.app, line |-> calc.line,
                    panic |-> panic, ev |-> ev, out |-> out,
                    toggle |-> avr_mute_toggle(out)]
    /\ UNCHANGED <<conn, ssdp, loopvars, sessvars>>

\* One command through HeosCommand::to_string.
CalcEncode ==
    /\ calc.op = "encode" /\ ~calc.done
    /\ calc' = [op |-> "encode", done |-> TRUE, cmd |-> calc.cmd,
                wire |-> to_string(calc.cmd)]
    /\ UNCHANGED <<conn, ssdp, loopvars, sessvars>>

\* One command built by its constructor (set_play_state,
\* browse_source_container, play_station, play_input) and encoded by
\* HeosCommand::to_string.
CalcConstruct ==
    /\ calc.op = "construct" /\ ~calc.done
    /\ LET n == IntToStr(calc.pid)
           cmd ==
             CASE calc.ctor = "set_play_state" ->
                    HeosCommand(Str.group_player, Str.set_play_state,
                                << <<Str.pid, n>>, <<Str.state, calc.arg>> >>)
               [] calc.ctor = "browse_source_container" ->
                    HeosCommand(Str.browse, Str.browse,
                                << <<Str.sid, n>>, <<Str.cid, calc.arg>> >>)
               [] calc.ctor = "play_station" ->
                    HeosCommand(Str.browse, Str.play_stream,
                                << <<Str.pid, n>>, <<Str.sid, n>>, <<Str.mid, calc.arg>> >>)
               [] calc.ctor = "play_input" ->
                    HeosCommand(Str.browse, Str.play_input,
                                << <<Str.pid, n>>, <<Str.input, calc.arg>> >>)
       IN  calc' = [op |-> "construct", done |-> TRUE, ctor |-> calc.ctor,
                    pid |-> calc.pid, arg |-> calc.arg, cmd |-> cmd,
                    wire |-> to_string(cmd)]
    /\ UNCHANGED <<conn, ssdp, loopvars, sessvars>>

\* One decoded envelope through is_event, is_success and the Ok(_) arm of the
\* player session's read loop.
CalcEnvelope ==
    /\ calc.op = "envelope" /\ ~calc.done
    /\ calc' = [op |-> "envelope", done |-> TRUE, env |-> calc.env,
                event |-> is_event(calc.env), success |-> is_success(calc.env),
                sent |-> heos_read_arm([json |-> TRUE, env |-> calc.env])]
    /\ UNCHANGED <<conn, ssdp, loopvars, sessvars>>

\* The token part of SurroundMode::command (the text after MS) for a mode, or
\* a drawn text, through SurroundMode::from_response.
CalcSurround ==
    /\ calc.op = "surround" /\ ~calc.done
    /\ LET s == IF calc.mode # "none" THEN SliceFrom(SurroundMode_command(calc.mode), 2)
                ELSE calc.text
       IN  calc' = [op |-> "surround", done |-> TRUE, mode |-> calc.mode, text |-> s,
                    decoded |-> SurroundMode_from_response(s)]
    /\ UNCHANGED <<conn, ssdp, loopvars, sessvars>>

\* One level through AvrHandle::set_volume and AvrHandle::dialog_enhancer: the
\* strings they put on the command channel.
CalcLevel ==
    /\ calc.op = "level" /\ ~calc.done
    /\ calc' = [op |-> "level", done |-> TRUE, level |-> calc.level,
                volume |-> AvrHandle_set_volume(calc.level),
                dialog |-> AvrHandle_dialog_enhancer(calc.level)]
    /\ UNCHANGED <<conn, ssdp, loopvars, sessvars>>

CalcInit ==
    /\ calc \in CalcInputs /\ conn = ConnStart /\ ssdp = [pc |-> "idle"]
    /\ LoopAtRest /\ SessionAtRest

CalcNext ==
    \/ CalcVolume
    \/ CalcAvrLine
    \/ CalcEncode
    \/ CalcConstruct
    \/ CalcEnvelope
    \/ CalcSurround
    \/ CalcLevel

CalcSpec == CalcInit /\ [][CalcNext]_vars

\* C15: applied from the same starting App, a successful get_volume response
\* and a volume-changed event carrying the same message string produce the
\* same player state.
C15_ResponseAndEventAgree ==
    (calc.op = "volume" /\ calc.done) => calc.by_response.player_state = calc.by_event.player_state

\* C16: for a level L in 0..MaxLevel and the active player's pid P, a
\* successful player/get_volume response with message pid=P&level=L sets the
\* player state's volume to L and changes no other field of the App.
C16_GetVolumeSetsOnlyVolume ==
    (/\ calc.op = "volume" /\ calc.done
     /\ ~calc.with_mute
     /\ calc.app.player_state.player = Some(Player(calc.pid)))
    => calc.by_response = [calc.app EXCEPT !.player_state.volume = calc.level]

C16_Witness ==
    /\ calc.op = "volume" /\ calc.done
    /\ ~calc.with_mute
    /\ calc.app.player_state.player = Some(Player(calc.pid))
    /\ calc.level = MaxLevel
    /\ calc.app.player_state.volume # MaxLevel
    /\ calc.by_response.player_state.volume = MaxLevel

\* C17: for a receiver line made of MV and a suffix, a suffix of exactly two
\* decimal digits yields that master volume, a suffix of exactly three decimal
\* digits yields the master volume of its first two digits, and every other
\* suffix yields no event and leaves master_volume unchanged.
C17_VolumeSuffixRule ==
    (/\ calc.op = "avr" /\ calc.done
     /\ Len(calc.line) >= 2 /\ SubSeq(calc.line, 1, 2) = <<"M", "V">>
     /\ ~(Len(calc.line) >= 5 /\ SubSeq(calc.line, 1, 5) = <<"M", "V", "M", "A", "X">>))
    => LET suffix == SubSeq(calc.line, 3, Len(calc.line))
           before == calc.app.avr_state.master_volume
       IN  IF Len(suffix) \in {2, 3} /\ AllDigits(suffix)
           THEN /\ calc.ev = Some([type |-> "MasterVolume",
                                   vol |-> DecValue(SubSeq(suffix, 1, 2))])
                /\ calc.out.avr_state.master_volume = DecValue(SubSeq(suffix, 1, 2))
           ELSE /\ calc.ev = None
                /\ calc.out.avr_state.master_volume = before

\* C18: MUON / MUOFF set the mute flag to true / false; PWON sets power to
\* true, PWSTANDBY and PWOFF set it to false; any other MU or PW suffix yields
\* no event; SI x sets input_source to x and MS x sets surround_mode to x; each
\* such line changes that one field of the receiver state and nothing else.
C18_PrefixTable ==
    (calc.op = "avr" /\ calc.done /\ Len(calc.line) >= 2)
    => LET pre == SubSeq(calc.line, 1, 2)
           x   == SubSeq(calc.line, 3, Len(calc.line))
           a   == calc.app
       IN  /\ pre = <<"M", "U">> =>
                 CASE x = <<"O", "N">> -> calc.out = [a EXCEPT !.avr_state.muted = TRUE]
                   [] x = <<"O", "F", "F">> -> calc.out = [a EXCEPT !.avr_state.muted = FALSE]
                   [] OTHER -> calc.ev = None /\ calc.out = a
           /\ pre = <<"P", "W">> =>
                 CASE x = <<"O", "N">> -> calc.out = [a EXCEPT !.avr_state.power = TRUE]
                   [] x \in { <<"O", "F", "F">>, <<"S", "T", "A", "N", "D", "B", "Y">> } ->
                        calc.out = [a EXCEPT !.avr_state.power = FALSE]
                   [] OTHER -> calc.ev = None /\ calc.out = a
           /\ pre = <<"S", "I">> => calc.out = [a EXCEPT !.avr_state.input_source = x]
           /\ pre = <<"M", "S">> => calc.out = [a EXCEPT !.avr_state.surround_mode = x]

C18_Witness ==
    /\ calc.op = "avr" /\ calc.done
    /\ calc.line = <<"S", "I", "T", "V">>
    /\ calc.app.avr_state.input_source # <<"T", "V">>
    /\ calc.out.avr_state.input_source = <<"T", "V">>

\* C19: a non-empty receiver line whose prefix is none of MV, MU, PW, SI, MS,
\* and every line beginning with MVMAX, is forwarded as one raw-response event
\* carrying the line, never as an error; reconciling it leaves the receiver
\* state and the status message unchanged.
C19_UnknownLineIsRawResponse ==
    (/\ calc.op = "avr" /\ calc.done
     /\ calc.line # <<>>
     /\ \/ Len(calc.line) < 2
        \/ SubSeq(calc.line, 1, 2) \notin
              { <<"M", "V">>, <<"M", "U">>, <<"P", "W">>, <<"S", "I">>, <<"M", "S">> }
        \/ (Len(calc.line) >= 5 /\ SubSeq(calc.line, 1, 5) = <<"M", "V", "M", "A", "X">>))
    => /\ calc.ev = Some([type |-> "Response", line |-> calc.line])
       /\ calc.out.avr_state = calc.app.avr_state
       /\ calc.out.status_message = calc.app.status_message

C19_Witness ==
    /\ calc.op = "avr" /\ calc.done
    /\ calc.line = <<"M", "V", "M", "A", "X", " ", "8", "0">>
    /\ calc.ev = Some([type |-> "Response", line |-> calc.line])
    /\ calc.app.avr_state.master_volume = 30
    /\ calc.out = calc.app

\* C20: the wire encoding of a command is heos://<group>/<command>, followed
\* by '?' and the key=value pairs joined by '&' in insertion order if and only
\* if the parameter list is non-empty, followed by one line break; with an
\* empty parameter list no '?' is emitted and the parameter order is kept.
C20_WireEncoding ==
    (calc.op = "encode" /\ calc.done)
    => LET w      == calc.wire
           params == calc.cmd.params
           head   == <<"h", "e", "o", "s", ":", "/", "/">> \o calc.cmd.group \o <<"/">>
                     \o calc.cmd.command
           n      == Len(head)
           query  == SubSeq(w, n + 1, Len(w) - 2)
       IN  /\ Len(w) >= n + 2
           /\ SubSeq(w, 1, n) = head
           /\ SubSeq(w, Len(w) - 1, Len(w)) = <<"\r", "\n">>
           /\ \A i \in 1..(Len(w) - 2) : w[i] \notin {"\r", "\n"}
           /\ (\E i \in 1..Len(w) : w[i] = "?") <=> params # <<>>
           /\ IF params = <<>> THEN query = <<>>
              ELSE /\ query[1] = "?"
                   /\ Len(Split(Tail(query), "&")) = Len(params)
                   /\ \A i \in 1..Len(params) :
                        SplitOnce(Split(Tail(query), "&")[i], "=")
                          = Some(<<params[i][1], params[i][2]>>)

C20_Witness ==
    /\ calc.op = "encode" /\ calc.done
    /\ calc.cmd.params = << <<Str.state, Str.play>>, <<Str.pid, IntToStr(1)>> >>
    /\ calc.wire = <<"h", "e", "o", "s", ":", "/", "/", "p", "l", "a", "y", "e", "r", "/",
                     "s", "e", "t", "_", "p", "l", "a", "y", "_", "s", "t", "a", "t", "e",
                     "?", "s", "t", "a", "t", "e", "=", "p", "l", "a", "y", "&",
                     "p", "i", "d", "=", "1", "\r", "\n">>

\* C21: for every command a constructor builds, with any string argument,
\* decoding the encoded line (strip the scheme and the line break, split
\* group/command, split the query at '&' and each pair at '=') recovers the
\* group, the command and the ordered parameter list.
C21_DecodeRecoversCommand ==
    (calc.op = "construct" /\ calc.done)
    => LET w      == calc.wire
           body   == SubSeq(w, 8, Len(w) - 2)
           slash  == FindChar(body, "/", 1)
           rest   == SubSeq(body, slash + 1, Len(body))
           q      == FindChar(rest, "?", 1)
           pieces == IF q = 0 THEN <<>> ELSE Split(SubSeq(rest, q + 1, Len(rest)), "&")
           pair(x) == IF IsSome(SplitOnce(x, "=")) THEN Unwrap(SplitOnce(x, "="))
                      ELSE <<x, <<>> >>
       IN  /\ SubSeq(w, 1, 7) = <<"h", "e", "o", "s", ":", "/", "/">>
           /\ SubSeq(body, 1, slash - 1) = calc.cmd.group
           /\ (IF q = 0 THEN rest ELSE SubSeq(rest, 1, q - 1)) = calc.cmd.command
           /\ [i \in 1..Len(pieces) |-> pair(pieces[i])] = calc.cmd.params

\* C22: for every decoded envelope is_event is true exactly when the result
\* flag is absent, is_success is true exactly when the result flag is the
\* literal "success", the two are never both true, and the read loop forwards
\* the envelope as a Response exactly when it is not an event.
C22_EventAndSuccessFlags ==
    (calc.op = "envelope" /\ calc.done)
    => /\ calc.event <=> calc.env.result = <<>>
       /\ calc.success <=> calc.env.result = << <<"s", "u", "c", "c", "e", "s", "s">> >>
       /\ ~(calc.event /\ calc.success)
       /\ (calc.sent = << [type |-> "Response", response |-> calc.env] >>) <=> ~calc.event
       /\ calc.event => (calc.sent = <<>> \/ calc.sent[1].type # "Response")

\* An envelope whose result flag is "fail" went through: neither an event nor
\* a success, forwarded as a Response.
C22_Witness ==
    /\ calc.op = "envelope" /\ calc.done
    /\ calc.env.result = << <<"f", "a", "i", "l">> >>
    /\ ~calc.event /\ ~calc.success
    /\ calc.sent = << [type |-> "Response", response |-> calc.env] >>

\* C26: every response whose result flag indicates failure surfaces as a
\* user-visible message: after it is reconciled the status message slot holds
\* a diagnostic, whatever the content of its message string.
C26_FailureSurfaces ==
    [][ ( /\ Ran("heos_event")
          /\ loop'.input.ev.type = "Response"
          /\ loop'.input.ev.response.result # None
          /\ loop'.input.ev.response.result # Some(Str.success) )
        => app'.status_message # None ]_vars

\* C27: whatever lines the devices send, the player state's volume stays in
\* 0..100 and the receiver state's master volume stays in 0..98.
C27_VolumesInRange ==
    /\ (calc.op = "volume" /\ calc.done)
       => /\ calc.by_response.player_state.volume \in 0..100
          /\ calc.by_event.player_state.volume \in 0..100
    /\ (calc.op = "avr" /\ calc.done) => calc.out.avr_state.master_volume \in 0..98

\* C23: a player-session line that is empty or no decodable envelope, or an
\* event whose name is not in the recognized table, produces no notification
\* and no state change and does not end the read loop: the loop is back at
\* read_line, and the next line is read and processed.
C23_DroppedLineKeepsReading ==
    [][ (kind = "heos" /\ reader.pc = "read" /\ reader'.lines = reader.lines + 1)
        => /\ \A l \in { [json |-> FALSE, env |-> NullPayload],
                          [json |-> TRUE,
                           env |-> HeosResponse(Str.ev_groups_changed, None, <<>>,
                                                NullPayload)] } :
                 heos_read_arm(l) = None
           /\ reader'.pc = "read"
                => /\ reader' = [reader EXCEPT !.lines = @ + 1]
                   /\ evq' = evq /\ applied' = applied /\ disc' = disc
                   /\ write_half' = write_half /\ writer' = writer
           /\ reader'.pc # "read"
                => /\ reader'.pc = "send"
                   /\ reader'.item.id = reader'.lines
                   /\ reader'.item.type \in {"VolumeChanged", "Response"} ]_vars

\* The first line was dropped (nothing of it is queued or applied) and the
\* second line has been read and decoded to a volume event.
C23_Witness ==
    /\ kind = "heos"
    /\ reader.lines = 2 /\ reader.pc = "send"
    /\ reader.item = [id |-> 2, type |-> "VolumeChanged"]
    /\ \A i \in DOMAIN evq : evq[i].id # 1
    /\ \A i \in DOMAIN applied : applied[i] # 1

\* C24: the 16 surround modes have 16 pairwise distinct wire tokens and 16
\* pairwise distinct display names; for every mode, from_response of the token
\* part of its command returns the mode; from_response returns none for every
\* string that, trimmed and upper-cased, is no mode's token.
C24_SurroundModeRoundTrip ==
    (calc.op = "surround" /\ calc.done)
    => /\ Len(SurroundMode_all) = 16
       /\ \A i, j \in DOMAIN SurroundMode_all :
            i # j => /\ SurroundMode_all[i] # SurroundMode_all[j]
                     /\ SurroundMode_command(SurroundMode_all[i])
                          # SurroundMode_command(SurroundMode_all[j])
                     /\ SurroundMode_display_name(SurroundMode_all[i])
                          # SurroundMode_display_name(SurroundMode_all[j])
       /\ \A i \in DOMAIN SurroundMode_all :
            SubSeq(SurroundMode_command(SurroundMode_all[i]), 1, 2) = <<"M", "S">>
       /\ calc.mode # "none" => calc.decoded = <<calc.mode>>
       /\ calc.mode = "none" =>
            calc.decoded =
              CASE calc.text \in { <<" ", "s", "t", "e", "r", "e", "o", " ">>, <<"S", "t", "e", "r", "e", "o">> } -> <<"Stereo">>
                [] calc.text = <<"p", "u", "r", "e", " ", "d", "i", "r", "e", "c", "t">> -> <<"PureDirect">>
                [] calc.text = <<"D", "o", "l", "b", "y", " ", "D", "i", "g", "i", "t", "a", "l", "\t">> -> <<"DolbyDigital">>
                [] OTHER -> <<>>

\* The token of the Multi Ch Stereo mode, which differs from its display name,
\* was decoded back to the mode.
C24_Witness ==
    /\ calc.op = "surround" /\ calc.done
    /\ calc.mode = "MultiChStereo"
    /\ calc.text = <<"M", "C", "H", " ", "S", "T", "E", "R", "E", "O">>
    /\ calc.decoded = <<"MultiChStereo">>

\* C25: for every level in 0..255, set_volume submits MV, the two-digit
\* decimal of min(level, 98) and a carriage return; dialog_enhancer submits
\* PSDIL OFF when the level is 0 and otherwise PSDIL, a space and the two-digit
\* decimal of min(level, 6), each with one trailing carriage return.
C25_ClampedLevels ==
    (calc.op = "level" /\ calc.done)
    => LET digit  == <<"0", "1", "2", "3", "4", "5", "6", "7", "8", "9">>
           two(n) == <<digit[(n \div 10) + 1], digit[(n % 10) + 1]>>
           v      == IF calc.level > 98 THEN 98 ELSE calc.level
           d      == IF calc.level > 6 THEN 6 ELSE calc.level
       IN  /\ calc.volume = <<"M", "V">> \o two(v) \o <<"\r">>
           /\ calc.dialog = IF calc.level = 0
                            THEN <<"P", "S", "D", "I", "L", " ", "O", "F", "F", "\r">>
                            ELSE <<"P", "S", "D", "I", "L", " ">> \o two(d) \o <<"\r">>

C25_Witness ==
    /\ calc.op = "level" /\ calc.done
    /\ calc.level = 255
    /\ calc.volume = <<"M", "V", "9", "8", "\r">>
    /\ calc.dialog = <<"P", "S", "D", "I", "L", " ", "0", "6", "\r">>

-----------------------------------------------------------------------------
(* discovery.rs: discover_devices and discover_first_device *)

\* ssdp is the call's position, the ticks left until its deadline, the replies
\* received so far (a history the code does not keep), the devices vector and
\* the returned value.  A reply is its source address, its text, and the
\* LOCATION header parse_header finds in it (none when it has no such line).

\* The Ok(Ok(_)) arm that pushes every reply, whatever its text and address.
accept_all(devices, reply) ==
    Append(devices, [ip |-> reply.ip, location |-> UnwrapOr(reply.location, <<>>)])

\* The Ok(Ok(_)) arm of the receive loop (discovery.rs:58-80): a reply that
\* mentions a vendor keyword and comes from a new address is pushed.
accept(devices, reply) ==
    LET upper == <<"A", "B", "C", "D", "E", "F", "G", "H", "I", "J", "K", "L", "M">>
                 \o <<"N", "O", "P", "Q", "R", "S", "T", "U", "V", "W", "X", "Y", "Z">>
        lower == <<"a", "b", "c", "d", "e", "f", "g", "h", "i", "j", "k", "l", "m">>
                 \o <<"n", "o", "p", "q", "r", "s", "t", "u", "v", "w", "x", "y", "z">>
        low(c) == IF \E i \in 1..26 : upper[i] = c
                  THEN lower[CHOOSE i \in 1..26 : upper[i] = c] ELSE c
        to_lowercase == [i \in 1..Len(reply.text) |-> low(reply.text[i])]
        is_heos == \/ Contains(to_lowercase, <<"h", "e", "o", "s">>)
                   \/ Contains(to_lowercase, <<"d", "e", "n", "o", "n">>)
                   \/ Contains(to_lowercase, <<"m", "a", "r", "a", "n", "t", "z">>)
                   \/ Contains(reply.text, <<"A", "C", "T", "-", "D", "e", "n", "o", "n">>)
    IN  IF is_heos /\ ~(\E i \in 1..Len(devices) : devices[i].ip = reply.ip)
        THEN Append(devices, [ip |-> reply.ip,
                              location |-> UnwrapOr(reply.location, <<>>)])
        ELSE devices

\* bind and set_broadcast: an error of either is returned by `?`, the second
\* one with the socket already open.  Then the three probes, whose send
\* results are discarded; the deadline is set timeout_secs ticks ahead.
DiscStart ==
    /\ ssdp.pc = "idle"
    /\ \/ \E bound \in BOOLEAN :
            ssdp' = [pc |-> "done", opened |-> bound, broadcast |-> FALSE, left |-> 0,
                     probes |-> 0, seen |-> <<>>, devices |-> <<>>,
                     ret |-> [ok |-> FALSE, devices |-> <<>>],
                     first |-> [state |-> "unset", ip |-> None]]
       \/ \E timeout_secs \in 0..MaxTicks, ok_sends \in 0..3 :
            ssdp' = [pc |-> "loop", opened |-> TRUE, broadcast |-> TRUE,
                     left |-> timeout_secs, probes |-> ok_sends,
                     seen |-> <<>>, devices |-> <<>>,
                     ret |-> [ok |-> FALSE, devices |-> <<>>],
                     first |-> [state |-> "unset", ip |-> None]]
    /\ UNCHANGED <<conn, calc, loopvars, sessvars>>

\* recv_from returns a reply before the deadline: at least one tick has gone.
DiscRecv ==
    /\ ssdp.pc = "loop" /\ ssdp.left > 0
    /\ \E ip \in 1..MaxIps, gone \in 1..ssdp.left,
          body \in { [text |-> <<"H", "E", "O", "S">>,
                      location |-> Some(<<"l">>)],
                     [text |-> <<"M", "a", "r", "a", "n", "t", "z">>, location |-> None],
                     [text |-> <<"S", "T", ":", " ", "A", "C", "T", "-", "D", "e", "n", "o", "n">>, location |-> None],
                     [text |-> <<"u", "p", "n", "p">>, location |-> None] } :
         LET reply == [ip |-> ip, text |-> body.text, location |-> body.location]
         IN  ssdp' = [ssdp EXCEPT !.left = @ - gone,
                                  !.seen = Append(@, reply),
                                  !.devices = accept(@, reply)]
    /\ UNCHANGED <<conn, calc, loopvars, sessvars>>

\* A loop end that returns the receive error to the caller.
DiscBreak_strict ==
    /\ ssdp.pc = "loop"
    /\ \/ ssdp.left = 0 /\ ssdp' = [ssdp EXCEPT !.pc = "done",
                                     !.ret = [ok |-> TRUE, devices |-> ssdp.devices]]
       \/ ssdp.left > 0 /\ ssdp' = [ssdp EXCEPT !.pc = "done",
                                     !.ret = [ok |-> FALSE, devices |-> <<>>]]
    /\ UNCHANGED <<conn, calc, loopvars, sessvars>>

\* The loop ends: no time remains at its top, or recv_from returns an error,
\* or the timeout elapses; Ok(devices) is returned.
DiscBreak ==
    /\ ssdp.pc = "loop"
    /\ \/ ssdp.left = 0 /\ ssdp' = [ssdp EXCEPT !.pc = "done",
                                     !.ret = [ok |-> TRUE, devices |-> ssdp.devices]]
       \/ ssdp.left > 0 /\ ssdp' = [ssdp EXCEPT !.pc = "done",
                                     !.ret = [ok |-> TRUE, devices |-> ssdp.devices]]
       \/ ssdp.left > 0 /\ ssdp' = [ssdp EXCEPT !.pc = "done", !.left = 0,
                                     !.ret = [ok |-> TRUE, devices |-> ssdp.devices]]
    /\ UNCHANGED <<conn, calc, loopvars, sessvars>>

\* discover_first_device: the ip of the first device of the returned list.
DiscFirst ==
    /\ ssdp.pc = "done" /\ ssdp.first.state = "unset"
    /\ ssdp' = [ssdp EXCEPT !.first =
                  IF ~ssdp.ret.ok THEN [state |-> "err", ip |-> None]
                  ELSE IF ssdp.ret.devices = <<>> THEN [state |-> "ok", ip |-> None]
                  ELSE [state |-> "ok", ip |-> Some(ssdp.ret.devices[1].ip)]]
    /\ UNCHANGED <<conn, calc, loopvars, sessvars>>

DiscNext ==
    \/ DiscStart
    \/ DiscRecv
    \/ DiscBreak
    \/ DiscFirst

\* No discovery started; the other parts of the program at rest.
DiscInit ==
    /\ ssdp = [pc |-> "idle"]
    /\ conn = ConnStart
    /\ calc = NoCalc
    /\ LoopAtRest
    /\ SessionAtRest

DiscSpec == DiscInit /\ [][DiscNext]_vars

\* The runtime keeps polling the receive future and its timer, so the loop
\* gets to one of its exits.
DiscLiveSpec == DiscInit /\ [][DiscNext]_vars /\ WF_vars(DiscBreak)

\* C28: at every iteration of the receive loop and in the returned list no two
\* candidates have the same source address, every candidate comes from a reply
\* that mentions a vendor keyword, a further reply from a collected address
\* changes nothing, candidates stay in the order of their first accepted reply,
\* and discover_first_device returns the address of the first accepted reply
\* or none.
C28_DistinctAcceptedInOrder ==
    (ssdp.pc \in {"loop", "done"} /\ ssdp.broadcast)
    => LET d    == ssdp.devices
           seen == ssdp.seen
           vendor(r) == r.text \in { <<"H", "E", "O", "S">>, <<"M", "a", "r", "a", "n", "t", "z">>,
                                     <<"S", "T", ":", " ", "A", "C", "T", "-", "D", "e", "n", "o", "n">> }
           hit(k, ip) == seen[k].ip = ip /\ vendor(seen[k])
           firstHit(ip) == CHOOSE k \in 1..Len(seen) :
                             hit(k, ip) /\ \A j \in 1..(k - 1) : ~hit(j, ip)
       IN  /\ \A i, j \in 1..Len(d) : i # j => d[i].ip # d[j].ip
           /\ \A i \in 1..Len(d) : \E k \in 1..Len(seen) : hit(k, d[i].ip)
           /\ \A k \in 1..Len(seen) :
                vendor(seen[k]) => \E i \in 1..Len(d) : d[i].ip = seen[k].ip
           /\ \A i, j \in 1..Len(d) : i < j => firstHit(d[i].ip) < firstHit(d[j].ip)
           /\ ssdp.pc = "done" => ssdp.ret.devices = d
           /\ (ssdp.pc = "done" /\ ssdp.first.state # "unset")
                => /\ ssdp.first.state = "ok"
                   /\ ssdp.first.ip =
                              IF \E k \in 1..Len(seen) : vendor(seen[k])
                                THEN << seen[CHOOSE k \in 1..Len(seen) :
                                              /\ vendor(seen[k])
                                              /\ \A j \in 1..(k - 1) : ~vendor(seen[j])].ip >>
                                ELSE <<>>

\* A reply without a keyword from address 1, then two replies with a keyword
\* from address 2: one candidate, and address 2 is the first device.
C28_Witness ==
    /\ ssdp.pc = "done" /\ ssdp.broadcast
    /\ Len(ssdp.seen) = 3
    /\ ssdp.seen[1].ip = 1 /\ ssdp.seen[1].text = <<"u", "p", "n", "p">>
    /\ ssdp.seen[2].ip = 2 /\ ssdp.seen[2].text = <<"H", "E", "O", "S">>
    /\ ssdp.seen[3].ip = 2 /\ ssdp.seen[3].text = <<"M", "a", "r", "a", "n", "t", "z">>
    /\ Len(ssdp.devices) = 1
    /\ ssdp.first = [state |-> "ok", ip |-> <<2>>]

\* C29 (as claimed): once its socket is open, discover_devices always
\* terminates and returns a list, never an error: a receive error or the
\* deadline ends the loop and returns exactly the candidates collected so far,
\* also when replies without a keyword keep arriving and when sending a probe
\* fails.
C29_OpenSocketReturnsList ==
    /\ [](ssdp.pc = "done" /\ ssdp.opened
            => ssdp.ret = [ok |-> TRUE, devices |-> ssdp.devices])
    /\ (ssdp.pc = "loop") ~> (ssdp.pc = "done")

\* C29 (amended): once its socket is open and set to broadcast,
\* discover_devices always terminates and returns exactly the candidates
\* collected so far, never an error.
C29_DiscoveryTerminatesWithList ==
    /\ [](ssdp.pc = "done" /\ ssdp.broadcast
            => ssdp.ret = [ok |-> TRUE, devices |-> ssdp.devices])
    /\ (ssdp.pc = "loop") ~> (ssdp.pc = "done")

\* No probe was sent, replies without a keyword arrived until the deadline,
\* and the empty list was returned.
C29_Witness ==
    /\ ssdp.pc = "done" /\ ssdp.broadcast
    /\ ssdp.probes = 0 /\ ssdp.left = 0
    /\ Len(ssdp.seen) = MaxTicks
    /\ \A k \in 1..Len(ssdp.seen) : ssdp.seen[k].text = <<"u", "p", "n", "p">>
    /\ ssdp.ret = [ok |-> TRUE, devices |-> <<>>]

-----------------------------------------------------------------------------
(* The write loop once every handle is dropped *)

\* Every Sender of the command channel is gone: the connection task has
\* finished and the App has dropped the handle it held.
C30_AllDropped == task.pc = "done" /\ ctl.handle = "dropped"

\* The step takes the oldest command off the queue and hands it to the socket.
C30_WriterTakes ==
    /\ writer.pc = "recv"
    /\ cmdq # <<>>
    /\ writer'.pc = "write"
    /\ writer'.cmd = Head(cmdq)
    /\ cmdq' = Tail(cmdq)

-----------------------------------------------------------------------------
(* What the write loop puts on the socket *)

\* The socket has got the commands enq[1..n] in this order, each once, all of
\* them whole except possibly the last one after a failed write; the command
\* in hand is the next accepted one, and it is taken only when the one before
\* it is written and flushed.
C31_WireOrder ==
    LET o == writer.out
        n == Len(o)
    IN  /\ n <= Len(enq)
        /\ \A i \in 1..n : o[i].cmd = enq[i]
        /\ \A i \in 1..n : o[i].part => i = n /\ writer.why = "write_error"
        /\ writer.pc = "write" => n < Len(enq) /\ writer.cmd = enq[n + 1]
        /\ writer.pc = "flush" => n >= 1 /\ writer.cmd = o[n].cmd /\ ~o[n].part

-----------------------------------------------------------------------------
(* The receiver mute toggle of the Command Facade *)

-----------------------------------------------------------------------------
(* Play-mode events *)

\* C33: a repeat-mode-changed event for the active player whose message
\* carries only the repeat key changes only the repeat field of the player
\* state and leaves the shuffle flag as it was, and a shuffle-mode-changed
\* event whose message carries only the shuffle key changes only the shuffle
\* flag and leaves the repeat mode as it was.
C33_PlayModeEventChangesOneField ==
    [][ \A p \in Pids :
          LET repeat_ev ==
                  Unwrap(Forwarded(HeosResponse(Str.ev_repeat_mode_changed, None,
                                                Amp(PidKV(p), KV(Str.repeat, Str.on_all)),
                                                NullPayload)))
              shuffle_ev ==
                  Unwrap(Forwarded(HeosResponse(Str.ev_shuffle_mode_changed, None,
                                                Amp(PidKV(p), KV(Str.shuffle, Str.on)),
                                                NullPayload)))
          IN  (Ran("heos_event") /\ ActivePid(app) = Some(p))
              => /\ loop'.input.ev = repeat_ev
                      => app' = [app EXCEPT !.player_state.repeat = repeat_ev.repeat]
                 /\ loop'.input.ev = shuffle_ev
                      => app' = [app EXCEPT !.player_state.shuffle = shuffle_ev.shuffle]
      ]_vars

-----------------------------------------------------------------------------
(* The active index and the roster *)

\* C34: in every reachable state with a non-empty roster the active index is
\* smaller than the roster length, and the selected player recorded in the
\* player state, when present, has the pid of the roster entry at the active
\* index.
C34_ActiveIndexInRoster ==
    app.players # <<>>
    => /\ app.current_player_idx < Len(app.players)
       /\ IsSome(app.player_state.player)
            => Unwrap(app.player_state.player).pid
                 = app.players[app.current_player_idx + 1].pid

-----------------------------------------------------------------------------
(* The handle and the notifications of one session *)

\* C35: once the Disconnected notification of a session has been reconciled
\* (the read loop has emitted it and it is no longer in the event channel),
\* the App never again holds the handle of that session, and so never again
\* reports it connected (set_handle sets both at once), in every order in
\* which the control loop takes the handle and the notifications from their
\* channels.
C35_NoHandleAfterDisconnected ==
    (disc /\ \A i \in 1..Len(evq) : evq[i].type # "Disconnected")
    => ctl.handle # "held"

-----------------------------------------------------------------------------
(* The connection state while no session was made *)

\* C36: the connection state does not stay Discovering: when discovery finds
\* no device or opening the player socket fails, the connection state is
\* Disconnected once the resulting Error notification is reconciled.
C36_ErrorLeavesDiscovering ==
    heos_task = "reported" => app.connection_state = "Disconnected"

-----------------------------------------------------------------------------
(* The control loop under fair scheduling *)

\* select! takes a handle that waits in its channel, and the loop goes round.
\* What the devices send and what the user does is under no such condition.
LoopLiveSpec == Init /\ [][Next]_vars /\ WF_vars(RecvHandle) /\ WF_vars(LoopBack)

\* C37: after a player session is established, the queries for play state,
\* now-playing media, volume, mute and play mode of the active player are
\* eventually submitted without any user action, whether the control loop
\* takes the session handle before or after it reconciles the get_players
\* response.  The first two messages the loop took were the handle and the
\* response: if the handle came last, its step submitted the five queries; if
\* the response came last and nothing was submitted, the queries follow
\* unless the session ends first.
C37_InitialQueriesSubmitted ==
    LET Established ==
            /\ steps = 2
            /\ loop.pc = "done"
            /\ app.handle
            /\ IsSome(current_pid(app))
        Queries ==
            LET pid == Unwrap(current_pid(app))
            IN  << get_play_state(pid), get_now_playing_media(pid), get_volume(pid),
                   get_mute(pid), get_play_mode(pid) >>
        Submitted == IsSome(current_pid(app)) /\ sent = Queries
    IN  /\ []((Established /\ loop.input.op = "handle" /\ cmd_open) => Submitted)
        /\ (Established /\ loop.input.op = "heos_event" /\ cmd_open)
             ~> (Submitted \/ ~cmd_open \/ ~app.handle)

-----------------------------------------------------------------------------
(* The three suspension points of a session at once *)

\* C38: there is no reachable state in which the control loop is suspended
\* submitting to a full command queue, the session's write loop is suspended
\* in a socket write, and the session's read loop is suspended delivering to
\* a full event channel, all at once.
C38_NeverAllSuspended ==
    ~ ( /\ ctl.pc = "in_send"
        /\ Len(cmdq) = CmdCap
        /\ writer.pc = "write"
        /\ reader.pc = "send"
        /\ Len(evq) = EvCap )

-----------------------------------------------------------------------------
(* The receiver's decode step and the lines it is given *)

\* C39: for every text line the receiver can send, the decode step completes,
\* yielding one event or nothing, and the read loop goes on to the next line:
\* no line content, a volume line whose suffix is three bytes long and holds
\* a multi-byte character included, ends the read loop without a
\* Disconnected or Error notification.
C39_DecodeCompletes ==
    (calc.op = "avr" /\ calc.done) => ~calc.panic

-----------------------------------------------------------------------------
(* The refresh that follows a now-playing-changed event *)

\* C40: for each now-playing-changed event: when its pid is that of the
\* active player and a handle is held, exactly one get_now_playing_media
\* command for that pid is submitted (and accepted while the command channel
\* has its receiver); when its pid is not the active player's, no command is
\* submitted.  The now-playing metadata does not change when the event is
\* reconciled; it changes when a successful get_now_playing_media response
\* that carries the metadata is.
C40_NowPlayingRefresh ==
    [][ /\ ( Ran("heos_event") /\ loop'.input.ev.type = "NowPlayingChanged" )
            => /\ app'.player_state.now_playing = app.player_state.now_playing
               /\ sent' = IF /\ ActivePid(app) = Some(loop'.input.ev.pid)
                             /\ app.handle
                             /\ cmd_open
                          THEN <<get_now_playing_media(loop'.input.ev.pid)>>
                          ELSE <<>>
        /\ ( /\ Ran("heos_event")
             /\ loop'.input.ev.type = "Response"
             /\ loop'.input.ev.response.command = Str.player \o Str.get_now_playing_media
             /\ loop'.input.ev.response.result = Some(Str.success)
             /\ IsSome(get_payload_object(loop'.input.ev.response, "NowPlayingMedia")) )
            => app'.player_state.now_playing
                   = Unwrap(get_payload_object(loop'.input.ev.response, "NowPlayingMedia"))
      ]_vars

\* A now-playing-changed event for the active player was reconciled with a
\* handle held: the one query for that player was submitted, and the metadata
\* shown is still the default.
C40_Witness ==
    /\ Done("heos_event")
    /\ loop.input.ev.type = "NowPlayingChanged"
    /\ ActivePid(app) = Some(loop.input.ev.pid)
    /\ Len(app.players) > 1
    /\ app.handle
    /\ sent = <<get_now_playing_media(loop.input.ev.pid)>>
    /\ app.player_state.now_playing = NowPlayingMedia_default

====
